---- MODULE Spec2Model ----
(***************************************************************************)
(* SkyHarbour: the tick-based airport simulation core (useGameEngine), its *)
(* calendar helpers, the upgrade catalogue and the daily-event hook.       *)
(*                                                                         *)
(* Units.  gameTime is in ticks.  Positions are the integer map            *)
(* coordinates of the source.  economy.demand is kept in TENTHS (the       *)
(* organic growth step adds multiples of 0.1).  Speeds are kept in         *)
(* QUARTERS of a map unit (2.5 * 0.5 is not an integer).                   *)
(*                                                                         *)
(* Math.random() is a nondeterministic choice.  The variable `scenario`    *)
(* names the environment of a behaviour: the values the draws may take,    *)
(* whether the build has an API key, and what the operator and the         *)
(* external generator may do.  pending counts the event requests sent to   *)
(* the external generator and not yet answered.  call records the last     *)
(* call of a helper in the runs that look at the helpers alone: its name,  *)
(* its arguments and what it returned.                                     *)
(***************************************************************************)
EXTENDS Integers, Sequences, FiniteSets, TLC

VARIABLES gameTime, schedule, planes, economy, upgrades, logs, paused,
          aiEnabled, gateOccupancy, nextId, pending, scenario, call

vars == <<gameTime, schedule, planes, economy, upgrades, logs, paused,
          aiEnabled, gateOccupancy, nextId, pending, scenario, call>>

\* ------------------------------------------------------------------------
\* Program constants
\* ------------------------------------------------------------------------
SPEED_FACTOR == 4
GATE_PARK_DURATION == 300
GATE_OCCUPANCY_WINDOW == 450
MaxAttempts == 15
SlotRange == 360
SlotLead == 60
SchedulePeriod == 360
LowWaterMark == 3
HoldShortTimer == 20
MaxLogs == 50
DayTicks == 1440
START_TIME_OFFSET == 172800
START_YEAR == 1
CampaignCost == 25000
DivertPenalty == 500
WaitingLimit == 2
BacklogLimit == 3

NULL == 0
NoGate == "none"

BaseGates == <<"gate_1", "gate_2", "gate_3">>
ExtraGate == "gate_4"

\* MAP_NODES, the gate entries
GateX(g) ==
    CASE g = "gate_1" -> 800
      [] g = "gate_2" -> 1000
      [] g = "gate_3" -> 1200
      [] g = "gate_4" -> 1400

GateY(g) == 950

UpgradeIds == {"ils_cat2", "terminal_exp_1", "radar_system", "marketing_campaign"}

UpgradeCost(id) ==
    CASE id = "ils_cat2" -> 150000
      [] id = "terminal_exp_1" -> 1250000
      [] id = "radar_system" -> 450000
      [] id = "marketing_campaign" -> 250000

INITIAL_ECONOMY ==
    [balance |-> 200000, tourismScore |-> 20, industryScore |-> 30,
     demand |-> 400, reputation |-> 80]

\* ------------------------------------------------------------------------
\* Small helpers
\* ------------------------------------------------------------------------
Max(a, b) == IF a >= b THEN a ELSE b
Min(a, b) == IF a <= b THEN a ELSE b
Abs(a) == IF a >= 0 THEN a ELSE -a

\* Math.floor(a / b) and Math.ceil(a / b) for b > 0
FloorDiv(a, b) == a \div b
CeilDiv(a, b) == -((-a) \div b)

\* A faulty variant: the entry is put at the end of the feed
PushLog_AtTheEnd(lg, message, type, timestamp) ==
    SubSeq(lg \o <<[message |-> message, type |-> type, timestamp |-> timestamp]>>,
           1, Min(Len(lg) + 1, MaxLogs))

\* [entry, ...logs].slice(0, 50)
PushLog(lg, message, type, timestamp) ==
    SubSeq(<<[message |-> message, type |-> type, timestamp |-> timestamp]>> \o lg,
           1, Min(Len(lg) + 1, MaxLogs))

\* ------------------------------------------------------------------------
\* Calendar (constants.ts)
\* ------------------------------------------------------------------------
minutesInDay == 1440
minutesInMonth == 1440 * 30
minutesInYear == 1440 * 30 * 12

\* A faulty variant: the year is counted from the first tick, not from the
\* start of year 1
getGameDate_YearFromStart(ticks) ==
    LET totalMinutes == ticks + START_TIME_OFFSET
        yearRemainder == totalMinutes % minutesInYear
        monthRemainder == yearRemainder % minutesInMonth
        dayRemainder == monthRemainder % minutesInDay
    IN [year |-> (ticks \div minutesInYear) + START_YEAR,
        monthIndex |-> yearRemainder \div minutesInMonth,
        day |-> (monthRemainder \div minutesInDay) + 1,
        hours |-> dayRemainder \div 60,
        minutes |-> dayRemainder % 60]

getGameDate(ticks) ==
    LET totalMinutes == ticks + START_TIME_OFFSET
        yearRemainder == totalMinutes % minutesInYear
        monthRemainder == yearRemainder % minutesInMonth
        dayRemainder == monthRemainder % minutesInDay
    IN [year |-> (totalMinutes \div minutesInYear) + START_YEAR,
        monthIndex |-> yearRemainder \div minutesInMonth,
        day |-> (monthRemainder \div minutesInDay) + 1,
        hours |-> dayRemainder \div 60,
        minutes |-> dayRemainder % 60]

\* Math.sin((m - 2) * Math.PI / 6) as the exact value (a + b*sqrt(3)) / 2,
\* given as <<a, b>>; the argument is a multiple of 30 degrees.
SinTwice(m) ==
    LET r == (m - 2) % 12
    IN CASE r = 0 -> <<0, 0>>
         [] r = 1 -> <<1, 0>>
         [] r = 2 -> <<0, 1>>
         [] r = 3 -> <<2, 0>>
         [] r = 4 -> <<0, 1>>
         [] r = 5 -> <<1, 0>>
         [] r = 6 -> <<0, 0>>
         [] r = 7 -> <<-1, 0>>
         [] r = 8 -> <<0, -1>>
         [] r = 9 -> <<-2, 0>>
         [] r = 10 -> <<0, -1>>
         [] r = 11 -> <<-1, 0>>

\* A faulty variant: the curve of the projection is a month late
ProjectedSinTwice_MonthLate(monthOffset) == SinTwice(monthOffset - 1)

\* trafficData: Math.sin((monthOffset - 2) * Math.PI / 6), where monthOffset
\* is the month index of today plus the months ahead and is not reduced
\* modulo 12
ProjectedSinTwice(monthOffset) == SinTwice(monthOffset)

\* c <= e * sqrt(3), for integers c and e
LeqSqrt3(c, e) ==
    IF e >= 0 THEN c <= 0 \/ c * c <= 3 * e * e
    ELSE c < 0 /\ c * c >= 3 * e * e

\* Math.floor(baseDemand * seasonality), seasonality = 1 + 0.3 * sin(...):
\* with demand10 = 10 * baseDemand the product is
\* (demand10 * (20 + 3a) + 3b * demand10 * sqrt(3)) / 200.
EffectiveDemand(demand10, monthIndex) ==
    LET a == SinTwice(monthIndex)[1]
        b == SinTwice(monthIndex)[2]
        P == demand10 * (20 + 3 * a)
        Q == 3 * b * demand10
        lo == ((P - 2 * Abs(Q)) \div 200) - 1
        hi == ((P + 2 * Abs(Q)) \div 200) + 1
    IN IF b = 0 THEN P \div 200
       ELSE CHOOSE n \in lo..hi :
                /\ LeqSqrt3(200 * n - P, Q)
                /\ ~LeqSqrt3(200 * (n + 1) - P, Q)

\* ------------------------------------------------------------------------
\* Scheduler (generateSchedule)
\* ------------------------------------------------------------------------
hasTerminalExp(ups) == ups["terminal_exp_1"]

TotalGates(ups) == IF hasTerminalExp(ups) THEN 4 ELSE 3

Interval(t) == [start |-> t, end |-> t + GATE_OCCUPANCY_WINDOW]

\* A faulty variant: the flights already scheduled are not counted
CommittedIntervals_None(sched, currentTime) == <<>>

\* existingFlights.map(...): the windows of the Scheduled flights still ahead
CommittedIntervals(sched, currentTime) ==
    LET idx == {i \in 1..Len(sched) :
                   sched[i].status = "Scheduled" /\ sched[i].scheduledTime > currentTime}
        RECURSIVE Build(_)
        Build(i) ==
            IF i > Len(sched) THEN <<>>
            ELSE (IF i \in idx THEN <<Interval(sched[i].scheduledTime)>> ELSE <<>>)
                 \o Build(i + 1)
    IN Build(1)

\* A faulty variant: the candidate is tested on its own
Relevant_CandidateOnly(committed, cand) == <<cand>>

\* [...committedIntervals, candidate].filter(iv => iv.start < candidateEnd && iv.end > scheduledTime)
Relevant(committed, cand) ==
    SelectSeq(committed \o <<cand>>,
              LAMBDA iv : iv.start < cand.end /\ iv.end > cand.start)

\* relevant.forEach(iv => { points.push(start, 1); points.push(end, -1) })
RECURSIVE SweepPoints(_)
SweepPoints(ivs) ==
    IF ivs = <<>> THEN <<>>
    ELSE <<[t |-> Head(ivs).start, type |-> 1], [t |-> Head(ivs).end, type |-> -1]>>
         \o SweepPoints(Tail(ivs))

\* A faulty variant: on a tie the start goes before the end
PointBefore_StartFirst(a, b) == a.t < b.t \/ (a.t = b.t /\ a.type > b.type)

\* the comparator (a, b) => a.t - b.t || a.type - b.type says a goes before b
PointBefore(a, b) == a.t < b.t \/ (a.t = b.t /\ a.type < b.type)

\* points.sort(comparator): a stable sort
RECURSIVE InsertPoint(_, _)
InsertPoint(sorted, p) ==
    IF sorted = <<>> THEN <<p>>
    ELSE IF PointBefore(p, Head(sorted)) THEN <<p>> \o sorted
    ELSE <<Head(sorted)>> \o InsertPoint(Tail(sorted), p)

RECURSIVE SortPoints(_)
SortPoints(pts) ==
    IF pts = <<>> THEN <<>>
    ELSE InsertPoint(SortPoints(SubSeq(pts, 1, Len(pts) - 1)), pts[Len(pts)])

\* the scan: running count and its maximum
RECURSIVE ScanMax(_, _, _)
ScanMax(pts, currentConcurrent, maxConcurrent) ==
    IF pts = <<>> THEN maxConcurrent
    ELSE LET c == currentConcurrent + Head(pts).type
         IN ScanMax(Tail(pts), c, Max(maxConcurrent, c))

MaxConcurrent(ivs) == ScanMax(SortPoints(SweepPoints(ivs)), 0, 0)

\* A faulty variant of the acceptance test, one window too many
WithinCapacity_OneMore(maxConcurrent, totalGates) == maxConcurrent <= totalGates + 1

\* if (maxConcurrent <= totalGates)
WithinCapacity(maxConcurrent, totalGates) == maxConcurrent <= totalGates

ValidSlot(committed, scheduledTime, totalGates) ==
    WithinCapacity(MaxConcurrent(Relevant(committed, Interval(scheduledTime))), totalGates)

\* The types a new flight may get: regional, narrowbody when effectiveDemand > 50
\* and the coin says so, widebody when effectiveDemand > 80 and the coin says so.
TypeChoices(effectiveDemand) ==
    {"regional"}
    \cup (IF effectiveDemand > 50 THEN {"narrowbody"} ELSE {})
    \cup (IF effectiveDemand > 80 THEN {"widebody"} ELSE {})

\* One candidate's while loop: the results it can end with, <<TRUE, time>> for
\* a slot found and <<FALSE, 0>> for a candidate dropped after MaxAttempts
\* failed draws.  A failed draw changes nothing but the attempt counter.
RECURSIVE TryAttempts(_, _, _, _, _)
TryAttempts(attempts, currentTime, committed, totalGates, slots) ==
    IF attempts >= MaxAttempts THEN {<<FALSE, 0>>}
    ELSE LET good == {r \in slots :
                         ValidSlot(committed, currentTime + r + SlotLead, totalGates)}
         IN {<<TRUE, currentTime + r + SlotLead>> : r \in good}
            \cup (IF slots \ good # {}
                  THEN TryAttempts(attempts + 1, currentTime, committed, totalGates, slots)
                  ELSE {})

\* futureFlights.sort((a, b) => a.scheduledTime - b.scheduledTime): stable
RECURSIVE InsertFlight(_, _)
InsertFlight(sorted, f) ==
    IF sorted = <<>> THEN <<f>>
    ELSE IF f.scheduledTime < Head(sorted).scheduledTime THEN <<f>> \o sorted
    ELSE <<Head(sorted)>> \o InsertFlight(Tail(sorted), f)

RECURSIVE SortFlights(_)
SortFlights(fs) ==
    IF fs = <<>> THEN <<>>
    ELSE InsertFlight(SortFlights(SubSeq(fs, 1, Len(fs) - 1)), fs[Len(fs)])

\* A faulty variant: one candidate more than the target
NumFlights_OneMore(effectiveDemand) == Max(1, CeilDiv(effectiveDemand, 12)) + 1

NumFlights(effectiveDemand) == Max(1, CeilDiv(effectiveDemand, 12))

\* The for loop over the candidates: the set of <<futureFlights, next id>> it
\* can end with.  SlotsOf(env, i) are the values candidate i may draw for
\* Math.floor(Math.random() * 360), env.types the types the coins may give.
SlotsOf(env, i) == IF i \in DOMAIN env.slots THEN env.slots[i] ELSE env.rest

RECURSIVE CandidateLoop(_, _, _, _, _, _, _, _)
CandidateLoop(i, numFlights, currentTime, committed, totalGates, futureFlights, id, env) ==
    IF i >= numFlights THEN {<<futureFlights, id>>}
    ELSE UNION {
        IF res[1]
        THEN UNION {
            CandidateLoop(i + 1, numFlights, currentTime,
                          Append(committed, Interval(res[2])), totalGates,
                          Append(futureFlights,
                                 [id |-> id, type |-> ty, scheduledTime |-> res[2],
                                  status |-> "Scheduled"]),
                          id + 1, env)
            : ty \in env.types }
        ELSE CandidateLoop(i + 1, numFlights, currentTime, committed, totalGates,
                           futureFlights, id, env)
        : res \in TryAttempts(0, currentTime, committed, totalGates, SlotsOf(env, i)) }

\* generateSchedule(currentTime, baseDemand), reading the upgrades and the
\* schedule of the state: the set of <<sorted batch, next id>> it can return.
generateSchedule(currentTime, baseDemand, ups, sched, id, env) ==
    LET effectiveDemand == EffectiveDemand(baseDemand, getGameDate(currentTime).monthIndex)
        numFlights == NumFlights(effectiveDemand)
        envT == [env EXCEPT !.types = env.types \cap TypeChoices(effectiveDemand)]
        ends == CandidateLoop(0, numFlights, currentTime,
                              CommittedIntervals(sched, currentTime),
                              TotalGates(ups), <<>>, id, envT)
    IN {<<SortFlights(e[1]), e[2]>> : e \in ends}

\* ------------------------------------------------------------------------
\* Positions.  A position is [x, y, prog, tx, ty].  With prog = 0 the plane
\* is at the integer point (x, y) (tx = ty = 0).  On a leg that is not
\* parallel to an axis the plane has travelled prog units from (x, y)
\* straight towards (tx, ty): its coordinates are then irrational, and are
\* compared with integers exactly, by squaring.
\* ------------------------------------------------------------------------
At(x, y) == [x |-> x, y |-> y, prog |-> 0, tx |-> 0, ty |-> 0]

RECURSIVE ISqrtIn(_, _, _)
ISqrtIn(n, lo, hi) ==
    IF hi - lo <= 1 THEN lo
    ELSE LET mid == (lo + hi) \div 2
         IN IF mid * mid <= n THEN ISqrtIn(n, mid, hi) ELSE ISqrtIn(n, lo, mid)

\* floor(sqrt(n)) for 0 <= n < 2^31
ISqrt(n) == ISqrtIn(n, 0, 46341)

\* a > b * sqrt(D) and a < b * sqrt(D), for a >= 0, b >= 0, D > 0
PosGtSqrt(a, b, D) ==
    LET lo == ISqrt(D)
    IN IF lo * lo = D THEN a > b * lo
       ELSE IF a <= b * lo THEN FALSE
       ELSE IF a >= b * (lo + 1) THEN TRUE
       ELSE a * a > b * b * D

PosLtSqrt(a, b, D) ==
    LET lo == ISqrt(D)
    IN IF lo * lo = D THEN a < b * lo
       ELSE IF b = 0 THEN FALSE
       ELSE IF a <= b * lo THEN TRUE
       ELSE IF a >= b * (lo + 1) THEN FALSE
       ELSE a * a < b * b * D

LegSquare(pos) == (pos.tx - pos.x) * (pos.tx - pos.x) + (pos.ty - pos.y) * (pos.ty - pos.y)

\* position.x > B, position.x < B (axis = "x") and the same for y
CoordGt(pos, axis, B) ==
    LET c0 == IF axis = "x" THEN pos.x ELSE pos.y
        dc == IF axis = "x" THEN pos.tx - pos.x ELSE pos.ty - pos.y
        a == pos.prog * dc
        b == B - c0
    IN IF pos.prog = 0 THEN c0 > B
       ELSE IF b < 0 THEN a >= 0 \/ PosLtSqrt(-a, -b, LegSquare(pos))
       ELSE a > 0 /\ PosGtSqrt(a, b, LegSquare(pos))

CoordLt(pos, axis, B) ==
    LET c0 == IF axis = "x" THEN pos.x ELSE pos.y
        dc == IF axis = "x" THEN pos.tx - pos.x ELSE pos.ty - pos.y
        a == pos.prog * dc
        b == B - c0
    IN IF pos.prog = 0 THEN c0 < B
       ELSE IF b > 0 THEN a <= 0 \/ PosLtSqrt(a, b, LegSquare(pos))
       ELSE a < 0 /\ PosGtSqrt(-a, -b, LegSquare(pos))

Sign(a) == IF a > 0 THEN 1 ELSE IF a < 0 THEN -1 ELSE 0

\* moveTowards(plane, tx, ty, speed): the new position and whether the
\* target was reached (distance < speed snaps to the target).
moveTowards(pos, tx, ty, speed) ==
    LET dx == tx - pos.x
        dy == ty - pos.y
    IN IF pos.prog = 0 /\ (dx = 0 \/ dy = 0)
       THEN IF Abs(dx) + Abs(dy) < speed
            THEN [pos |-> At(tx, ty), reached |-> TRUE]
            ELSE [pos |-> At(pos.x + Sign(dx) * speed, pos.y + Sign(dy) * speed),
                  reached |-> FALSE]
       ELSE IF dx * dx + dy * dy < (pos.prog + speed) * (pos.prog + speed)
            THEN [pos |-> At(tx, ty), reached |-> TRUE]
            ELSE IF pos.prog + speed = 0
                 THEN [pos |-> pos, reached |-> FALSE]
                 ELSE [pos |-> [x |-> pos.x, y |-> pos.y, prog |-> pos.prog + speed,
                                tx |-> tx, ty |-> ty],
                       reached |-> FALSE]

\* ------------------------------------------------------------------------
\* Physics helpers
\* ------------------------------------------------------------------------
createPlane(flight, revenue) ==
    [id |-> flight.id, type |-> flight.type, status |-> "APPROACH",
     pos |-> At(-600, 750), waypoints |-> << <<500, 750>> >>,
     targetGateId |-> NoGate, revenue |-> revenue, timer |-> 0]

InRunwayBox(pos) ==
    /\ CoordGt(pos, "y", 740)
    /\ CoordLt(pos, "y", 760)
    /\ CoordGt(pos, "x", 450)
    /\ CoordLt(pos, "x", 1800)

isRunwayOccupied(allPlanes, exceptId) ==
    \E i \in 1..Len(allPlanes) :
        /\ allPlanes[i].id # exceptId
        /\ \/ allPlanes[i].status \in {"TAKEOFF", "LANDING"}
           \/ InRunwayBox(allPlanes[i].pos)

GateList(ups) == IF hasTerminalExp(ups) THEN Append(BaseGates, ExtraGate) ELSE BaseGates

GateIsFree(occupancy, g) == g \notin DOMAIN occupancy \/ occupancy[g] = NULL

\* A faulty variant: gate_4 is offered whether or not the terminal is unlocked
getFreeGate_IgnoresUpgrade(occupancy, ups) ==
    LET gates == Append(BaseGates, ExtraGate)
        free == {i \in 1..Len(gates) : GateIsFree(occupancy, gates[i])}
    IN IF free = {} THEN NoGate
       ELSE gates[CHOOSE i \in free : \A j \in free : i <= j]

\* the first gate of the list with no occupant, or NoGate
getFreeGate(occupancy, ups) ==
    LET gates == GateList(ups)
        free == {i \in 1..Len(gates) : GateIsFree(occupancy, gates[i])}
    IN IF free = {} THEN NoGate
       ELSE gates[CHOOSE i \in free : \A j \in free : i <= j]

GateWaypoints(g) == << <<GateX(g), 850>>, <<GateX(g), GateY(g)>> >>

\* 4 * speed for the type: 3, 2.5, 2
BaseSpeedQ(type) ==
    IF type = "regional" THEN 12 ELSE IF type = "narrowbody" THEN 10 ELSE 8

incomingApproach(allPlanes) ==
    \E i \in 1..Len(allPlanes) :
        allPlanes[i].status = "APPROACH" /\ CoordGt(allPlanes[i].pos, "x", -200)

GoAroundWaypoints == << <<500, 500>>, <<-500, 750>>, <<500, 750>>, <<1500, 750>> >>

\* The status logic before the movement works on <<plane, speed in quarters>>.
\* if (updated.status === APPROACH) { ... go around when the runway is occupied }
ApproachLogic(plane, allPlanes) ==
    IF /\ plane.status = "APPROACH"
       /\ Abs(plane.pos.x - 500) < 300 /\ Abs(plane.pos.x - 500) > 100
       /\ isRunwayOccupied(allPlanes, plane.id)
    THEN [plane EXCEPT !.status = "GO_AROUND", !.waypoints = GoAroundWaypoints]
    ELSE plane

\* A faulty variant: a plane holding short is never released
HoldShortLogic_NoRelease(st, allPlanes) ==
    IF st[1].status # "HOLD_SHORT" THEN st ELSE <<st[1], 0>>

\* A faulty variant: a plane holding short is released at once
HoldShortLogic_AlwaysReleases(st, allPlanes) ==
    IF st[1].status # "HOLD_SHORT" THEN st
    ELSE <<[st[1] EXCEPT !.status = "TAKEOFF", !.waypoints = << <<3000, 750>> >>], 0>>

\* if (updated.status === HOLD_SHORT) { speed = 0; release when clear }
HoldShortLogic(st, allPlanes) ==
    IF st[1].status # "HOLD_SHORT" THEN st
    ELSE IF ~isRunwayOccupied(allPlanes, st[1].id) /\ ~incomingApproach(allPlanes)
    THEN <<[st[1] EXCEPT !.status = "TAKEOFF", !.waypoints = << <<3000, 750>> >>], 0>>
    ELSE <<st[1], 0>>

\* A faulty variant: a waiting plane that finds no gate is diverted
WaitingLogic_Diverts(st, freeGate) ==
    IF st[1].status # "WAITING_FOR_GATE" THEN st
    ELSE IF freeGate # NoGate
    THEN <<[st[1] EXCEPT !.targetGateId = freeGate, !.status = "TAXI_IN",
                         !.waypoints = GateWaypoints(freeGate)], 0>>
    ELSE <<[st[1] EXCEPT !.status = "DIVERTED"], 0>>

\* if (updated.status === WAITING_FOR_GATE) { speed = 0; take a free gate }
WaitingLogic(st, freeGate) ==
    IF st[1].status # "WAITING_FOR_GATE" THEN st
    ELSE IF freeGate # NoGate
    THEN <<[st[1] EXCEPT !.targetGateId = freeGate, !.status = "TAXI_IN",
                         !.waypoints = GateWaypoints(freeGate)], 0>>
    ELSE <<st[1], 0>>

\* the speed modifiers, applied in the order of the source
TaxiSpeed(st) ==
    IF st[1].status \in {"TAXI_IN", "TAXI_OUT"} THEN <<st[1], st[2] \div 2>> ELSE st

StoppedSpeed(st) ==
    IF st[1].status \in {"PARKED", "WAITING_FOR_GATE"} THEN <<st[1], 0>> ELSE st

TakeoffSpeed(st) ==
    IF st[1].status = "TAKEOFF" THEN <<st[1], st[2] * 3>> ELSE st

LandingSpeed(st) ==
    IF st[1].status = "LANDING" THEN <<st[1], (st[2] * 5) \div 2>> ELSE st

StatusLogic(plane, allPlanes, currentOccupancy, ups) ==
    LandingSpeed(TakeoffSpeed(StoppedSpeed(TaxiSpeed(
        WaitingLogic(
            HoldShortLogic(<<ApproachLogic(plane, allPlanes), BaseSpeedQ(plane.type)>>,
                           allPlanes),
            getFreeGate(currentOccupancy, ups))))))

\* moveTowards(updated, target.x, target.y, moveSpeed); if (reached) shift()
MoveTo(u, mv) ==
    [u EXCEPT !.pos = mv.pos,
              !.waypoints = IF mv.reached THEN Tail(u.waypoints) ELSE u.waypoints]

\* if (updated.waypoints.length > 0) { ... }, moveSpeed = speed * SPEED_FACTOR
Movement(u, speedQ) ==
    IF u.waypoints = <<>> THEN u
    ELSE MoveTo(u, moveTowards(u.pos, u.waypoints[1][1], u.waypoints[1][2],
                               (speedQ * SPEED_FACTOR) \div 4))

\* A faulty variant: an arriving plane waits even when a gate is free
TaxiInArrival_AlwaysWaits(u, freeGate) ==
    IF u.targetGateId # NoGate
    THEN IF CoordGt(u.pos, "y", 900)
         THEN [u EXCEPT !.status = "PARKED", !.timer = GATE_PARK_DURATION]
         ELSE u
    ELSE [u EXCEPT !.status = "WAITING_FOR_GATE"]

\* A faulty variant: the plane at its gate gets a tenth of the dwell time
TaxiInArrival_ShortDwell(u, freeGate) ==
    IF u.targetGateId # NoGate
    THEN IF CoordGt(u.pos, "y", 900)
         THEN [u EXCEPT !.status = "PARKED", !.timer = GATE_PARK_DURATION \div 10]
         ELSE u
    ELSE IF freeGate # NoGate
         THEN [u EXCEPT !.targetGateId = freeGate, !.waypoints = GateWaypoints(freeGate)]
         ELSE [u EXCEPT !.status = "WAITING_FOR_GATE"]

\* TAXI_IN with an empty waypoint queue
TaxiInArrival(u, freeGate) ==
    IF u.targetGateId # NoGate
    THEN IF CoordGt(u.pos, "y", 900)
         THEN [u EXCEPT !.status = "PARKED", !.timer = GATE_PARK_DURATION]
         ELSE u
    ELSE IF freeGate # NoGate
         THEN [u EXCEPT !.targetGateId = freeGate, !.waypoints = GateWaypoints(freeGate)]
         ELSE [u EXCEPT !.status = "WAITING_FOR_GATE"]

\* A faulty variant: a plane at the end of its taxi out goes straight to the
\* runway
Transition_SkipsHoldShort(u, currentOccupancy, ups) ==
    CASE u.status = "APPROACH" ->
           [u EXCEPT !.status = "LANDING", !.waypoints = << <<1300, 750>> >>]
      [] u.status = "LANDING" ->
           [u EXCEPT !.status = "TAXI_IN", !.waypoints = << <<1300, 850>> >>]
      [] u.status = "TAXI_IN" ->
           TaxiInArrival(u, getFreeGate(currentOccupancy, ups))
      [] u.status = "PARKED" ->
           IF u.timer > 0 THEN [u EXCEPT !.timer = u.timer - 1]
           ELSE [u EXCEPT !.status = "TAXI_OUT", !.targetGateId = NoGate,
                          !.waypoints = << <<u.pos.x, 850>>, <<500, 850>>, <<500, 800>> >>]
      [] u.status = "TAXI_OUT" ->
           [u EXCEPT !.status = "TAKEOFF", !.waypoints = << <<3000, 750>> >>]
      [] u.status = "TAKEOFF" -> [u EXCEPT !.status = "DEPARTED"]
      [] u.status = "GO_AROUND" -> [u EXCEPT !.status = "APPROACH"]
      [] OTHER -> u

\* A faulty variant: a plane that leaves its gate keeps the reference to it
Transition_KeepsGate(u, currentOccupancy, ups) ==
    CASE u.status = "APPROACH" ->
           [u EXCEPT !.status = "LANDING", !.waypoints = << <<1300, 750>> >>]
      [] u.status = "LANDING" ->
           [u EXCEPT !.status = "TAXI_IN", !.waypoints = << <<1300, 850>> >>]
      [] u.status = "TAXI_IN" ->
           TaxiInArrival(u, getFreeGate(currentOccupancy, ups))
      [] u.status = "PARKED" ->
           IF u.timer > 0 THEN [u EXCEPT !.timer = u.timer - 1]
           ELSE [u EXCEPT !.status = "TAXI_OUT",
                          !.waypoints = << <<u.pos.x, 850>>, <<500, 850>>, <<500, 800>> >>]
      [] u.status = "TAXI_OUT" ->
           [u EXCEPT !.status = "HOLD_SHORT", !.timer = HoldShortTimer]
      [] u.status = "TAKEOFF" -> [u EXCEPT !.status = "DEPARTED"]
      [] u.status = "GO_AROUND" -> [u EXCEPT !.status = "APPROACH"]
      [] OTHER -> u

\* the switch on the status, taken when the waypoint queue is empty
Transition(u, currentOccupancy, ups) ==
    CASE u.status = "APPROACH" ->
           [u EXCEPT !.status = "LANDING", !.waypoints = << <<1300, 750>> >>]
      [] u.status = "LANDING" ->
           [u EXCEPT !.status = "TAXI_IN", !.waypoints = << <<1300, 850>> >>]
      [] u.status = "TAXI_IN" ->
           TaxiInArrival(u, getFreeGate(currentOccupancy, ups))
      [] u.status = "PARKED" ->
           IF u.timer > 0 THEN [u EXCEPT !.timer = u.timer - 1]
           ELSE [u EXCEPT !.status = "TAXI_OUT", !.targetGateId = NoGate,
                          !.waypoints = << <<u.pos.x, 850>>, <<500, 850>>, <<500, 800>> >>]
      [] u.status = "TAXI_OUT" ->
           [u EXCEPT !.status = "HOLD_SHORT", !.timer = HoldShortTimer]
      [] u.status = "TAKEOFF" -> [u EXCEPT !.status = "DEPARTED"]
      [] u.status = "GO_AROUND" -> [u EXCEPT !.status = "APPROACH"]
      [] OTHER -> u

\* if (updated.waypoints.length === 0) { switch ... }
AfterMovement(moved, currentOccupancy, ups) ==
    IF moved.waypoints = <<>> THEN Transition(moved, currentOccupancy, ups) ELSE moved

MoveStep(st) == Movement(st[1], st[2])

updatePlanePhysics(plane, allPlanes, currentOccupancy, ups) ==
    AfterMovement(MoveStep(StatusLogic(plane, allPlanes, currentOccupancy, ups)),
                  currentOccupancy, ups)

\* ------------------------------------------------------------------------
\* The main loop: one tick
\* ------------------------------------------------------------------------
\* A faulty variant: a pass replaces the schedule
Pending_None(sched, now) == <<>>

\* current.schedule.filter(s => s.status === 'Scheduled' && s.scheduledTime > current.gameTime)
Pending(sched, now) ==
    SelectSeq(sched, LAMBDA f : f.status = "Scheduled" /\ f.scheduledTime > now)

SchedulerRuns(now, sched) == now % SchedulePeriod = 0 \/ Len(sched) < LowWaterMark

\* 2. the indices of the flights to spawn
\* A faulty variant: a rejected flight is tried again
FlightsToSpawn_RetriesDiverted(sched, now) ==
    {i \in 1..Len(sched) : /\ sched[i].status \in {"Scheduled", "Diverted"}
                           /\ sched[i].scheduledTime <= now}

FlightsToSpawn(sched, now) ==
    {i \in 1..Len(sched) : sched[i].status = "Scheduled" /\ sched[i].scheduledTime <= now}

CountStatus(pl, st) == Cardinality({i \in 1..Len(pl) : pl[i].status = st})

\* A faulty variant: one more waiting aircraft is tolerated
Congested_OneMore(pl) ==
    CountStatus(pl, "WAITING_FOR_GATE") > WaitingLimit + 1
    \/ CountStatus(pl, "HOLD_SHORT") > BacklogLimit

Congested(pl) ==
    CountStatus(pl, "WAITING_FOR_GATE") > WaitingLimit
    \/ CountStatus(pl, "HOLD_SHORT") > BacklogLimit

\* 3. flightsToSpawn.forEach(...), from flight index i on: acc holds the
\* schedule, the economy, the logs and the new planes so far; rv[i] is the
\* revenue drawn for the plane of flight i.
RECURSIVE ProcessSpawns(_, _, _, _, _, _)
ProcessSpawns(i, toSpawn, congested, rv, now, acc) ==
    IF i > Len(acc.schedule) THEN acc
    ELSE IF i \notin toSpawn THEN ProcessSpawns(i + 1, toSpawn, congested, rv, now, acc)
    ELSE IF congested
    THEN ProcessSpawns(i + 1, toSpawn, congested, rv, now,
            [acc EXCEPT !.schedule[i].status = "Diverted",
                        !.logs = PushLog(acc.logs, "diverted", "error", now),
                        !.economy.reputation = acc.economy.reputation - 2,
                        !.economy.balance = acc.economy.balance - DivertPenalty])
    ELSE ProcessSpawns(i + 1, toSpawn, congested, rv, now,
            [acc EXCEPT !.schedule[i].status = "On Time",
                        !.newPlanes = Append(acc.newPlanes,
                                             createPlane(acc.schedule[i], rv[i])),
                        !.logs = PushLog(acc.logs, "on approach", "info", now)])

GateHolders == {"TAXI_IN", "PARKED", "WAITING_FOR_GATE"}

\* 4. every key of the previous map reset to null, then each plane that holds
\* a gate written in array order (the last writer of a gate stays)
RebuildOccupancy(prevOccupancy, pl) ==
    LET holders(g) == {i \in 1..Len(pl) :
                          pl[i].targetGateId = g /\ pl[i].status \in GateHolders}
        held == {pl[i].targetGateId : i \in {j \in 1..Len(pl) :
                     pl[j].targetGateId # NoGate /\ pl[j].status \in GateHolders}}
    IN [g \in DOMAIN prevOccupancy \cup held |->
           IF holders(g) = {} THEN NULL
           ELSE pl[CHOOSE i \in holders(g) : \A j \in holders(g) : j <= i].id]

SetOccupant(occupancy, g, id) ==
    [h \in DOMAIN occupancy \cup {g} |-> IF h = g THEN id ELSE occupancy[h]]

\* sFlight = current.schedule.find(s => s.id === p.id); if (sFlight) sFlight.status = 'Departed'
MarkDeparted(sched, id) ==
    LET found == {i \in 1..Len(sched) : sched[i].id = id}
    IN IF found = {} THEN sched
       ELSE [sched EXCEPT ![CHOOSE i \in found : \A j \in found : i <= j].status = "Departed"]

\* 5. allPlanes.map(...).  acc.allPlanes are the plane objects the callbacks
\* read: the statuses committed by the previous tick and, for the planes
\* already processed, the position moved in place.
\* A faulty variant: the gate claimed by a plane is not written into the map
GateClaimed_Never(p, updatedP) == FALSE

\* if (updatedP.targetGateId && updatedP.targetGateId !== p.targetGateId)
GateClaimed(p, updatedP) ==
    updatedP.targetGateId # NoGate /\ updatedP.targetGateId # p.targetGateId

\* A faulty variant: the revenue event fires when the plane reaches DEPARTED
RevenueEvent_OnDeparted(p, updatedP) ==
    p.status = "TAKEOFF" /\ updatedP.status = "DEPARTED"

\* if (oldStatus === PARKED && updatedP.status === TAXI_OUT)
RevenueEvent(p, updatedP) == p.status = "PARKED" /\ updatedP.status = "TAXI_OUT"

\* A faulty variant: the event fires on every tick of the go-around
GoAroundEvent_EveryTick(p, updatedP) == updatedP.status = "GO_AROUND"

\* if (oldStatus !== GO_AROUND && updatedP.status === GO_AROUND)
GoAroundEvent(p, updatedP) == p.status # "GO_AROUND" /\ updatedP.status = "GO_AROUND"

EventLogs(lg, p, updatedP, now) ==
    IF RevenueEvent(p, updatedP) THEN PushLog(lg, "departed", "success", now)
    ELSE IF GoAroundEvent(p, updatedP) THEN PushLog(lg, "go around", "warning", now)
    ELSE lg

\* the callback for plane i = p, whose physics gave updatedP
PhysicsStep(acc, i, p, updatedP, now) ==
    [allPlanes |-> [acc.allPlanes EXCEPT ![i].pos = updatedP.pos],
     updatedPlanes |-> Append(acc.updatedPlanes, updatedP),
     occupancy |-> IF GateClaimed(p, updatedP)
                   THEN SetOccupant(acc.occupancy, updatedP.targetGateId, updatedP.id)
                   ELSE acc.occupancy,
     economy |-> [acc.economy EXCEPT
                     !.balance = IF RevenueEvent(p, updatedP) THEN @ + p.revenue ELSE @,
                     !.reputation = IF GoAroundEvent(p, updatedP) THEN @ - 1 ELSE @],
     schedule |-> IF RevenueEvent(p, updatedP) THEN MarkDeparted(acc.schedule, p.id)
                  ELSE acc.schedule,
     logs |-> EventLogs(acc.logs, p, updatedP, now)]

RECURSIVE PhysicsPass(_, _, _, _)
PhysicsPass(i, ups, now, acc) ==
    IF i > Len(acc.allPlanes) THEN acc
    ELSE PhysicsPass(i + 1, ups, now,
            PhysicsStep(acc, i, acc.allPlanes[i],
                        updatePlanePhysics(acc.allPlanes[i], acc.allPlanes,
                                           acc.occupancy, ups),
                        now))

UnlockedCount(ups) == Cardinality({u \in DOMAIN ups : ups[u]})

\* 6. the daily growth of demand, in tenths
EconomyTick(eco, ups, now) ==
    LET g1 == IF eco.reputation > 60 THEN 5 ELSE 0
        g2 == IF eco.reputation < 40 THEN -5 ELSE 0
        growth == g1 + g2 + UnlockedCount(ups) * 2
    IN IF now % DayTicks = 0
       THEN [eco EXCEPT !.demand = Max(100, Min(2000, eco.demand + growth))]
       ELSE eco

\* ------------------------------------------------------------------------
\* Environments.  A scenario fixes what is outside the program: the values
\* Math.random() can return, the build's API key, the commands the operator
\* issues and the answers of the external generator.
\* ------------------------------------------------------------------------
MaxTime == 1500
FirstPassTime == 1
EconTime == 1
LongTime == 11000
MaxCmds == 3
AsyncTime == 1500
AsyncFrom == 529
AsyncUntil == 532
CalendarMonths == 24
PauseTime == 3
ProjectionYears == 2

OpsScenarios == {"lockstep", "stagger", "congest", "overtake", "passtick",
                 "expand", "firstpass", "async"}
EconScenarios == {"econ", "offline"}
ServiceScenarios == {"service", "nokey"}
LongScenarios == {"long"}

\* process.env.API_KEY of the build
apiKey == scenario \in {"expand", "econ", "async", "service"}

\* the last tick the scenario lets the interval timer fire
Horizon(s) ==
    CASE s = "firstpass" -> FirstPassTime
      [] s = "async" -> AsyncTime
      [] s = "pausing" -> PauseTime
      [] s \in EconScenarios -> EconTime
      [] s \in LongScenarios -> LongTime
      [] OTHER -> MaxTime

\* The scheduler pass of tick `now`: pass 0 at tick 1, pass k at tick 360 k.
PassNo(now) == now \div SchedulePeriod

\* Math.floor(Math.random() * 360) in the pass of tick `now`: slots[i] are the
\* values candidate i may draw, rest the values of the other candidates.
SlotDraws(s, now) ==
    LET k == PassNo(now)
        all(S) == [slots |-> <<>>, rest |-> S]
    IN CASE s = "stagger" -> IF k = 0 THEN all({0, 20}) ELSE all({0})
         [] s = "congest" ->
                IF k = 0 THEN all({298}) ELSE all({0})
         [] s = "overtake" ->
                IF k = 0
                THEN [slots |-> (0 :> {286}) @@ (1 :> {307}) @@ (2 :> {147}),
                      rest |-> {0}]
                ELSE IF k = 1
                THEN [slots |-> (0 :> {59}) @@ (1 :> {116}), rest |-> {251}]
                ELSE all({359})
         [] s = "passtick" -> IF k = 0 THEN all({299}) ELSE all({0})
         [] s = "firstpass" -> all({0, 1, 90, 180, 359})
         [] s = "long" ->
                [slots |-> (0 :> {0}) @@ (1 :> {10}) @@ (2 :> {20}), rest |-> {0}]
         [] OTHER -> all({0})

\* Math.floor(Math.random() * 2000) + 500, the revenue drawn for a new plane
RevenueDraws(s) == {1500}

\* the types the two type coins may give
TypeDraws(s) == {"regional"}

Draws(s, now) ==
    [slots |-> SlotDraws(s, now).slots, rest |-> SlotDraws(s, now).rest,
     types |-> TypeDraws(s)]

\* What the operator does, until which tick, and how many log-producing
\* commands and events the scenario lets happen.
Commands(s) ==
    CASE s = "lockstep" -> {"pause"}
      [] s = "expand" -> {"event", "upgrade"}
      [] s = "async" -> {"event"}
      [] s = "pausing" -> {"pause", "ai", "upgrade", "campaign"}
      [] s \in ServiceScenarios -> {"ai"}
      [] s = "econ" -> {"upgrade", "campaign", "event"}
      [] s = "offline" -> {"pause", "ai", "upgrade", "campaign", "event"}
      [] OTHER -> {}

\* the first tick at which the operator acts
CmdFrom(s) ==
    CASE s \in EconScenarios -> 1
      [] s = "async" -> AsyncFrom
      [] OTHER -> 0

CmdUntil(s) ==
    CASE s = "expand" -> 0
      [] s = "async" -> AsyncUntil
      [] OTHER -> Horizon(s)

LogBudget(s) ==
    CASE s = "econ" -> MaxCmds
      [] OTHER -> MaxCmds - 1

CanDo(c) ==
    /\ c \in Commands(scenario)
    /\ CmdFrom(scenario) <= gameTime
    /\ gameTime <= CmdUntil(scenario)

\* the messages of the tick; every other entry is of a command or an event
TickMessages == {"diverted", "on approach", "departed", "go around"}

CanLog ==
    Cardinality({k \in 1..Len(logs) : logs[k].message \notin TickMessages})
        < LogBudget(scenario)

UpgradeChoices(s) ==
    IF s = "expand" THEN {"terminal_exp_1"} ELSE UpgradeIds \cup {"unknown_upgrade"}

\* ------------------------------------------------------------------------
\* The operations
\* ------------------------------------------------------------------------
\* 1. the schedules the scheduler step can leave, each with the next id
Generated(now) ==
    IF SchedulerRuns(now, schedule)
    THEN {<<SortFlights(Pending(schedule, now) \o g[1]), g[2]>> :
             g \in generateSchedule(now, economy.demand, upgrades, schedule, nextId,
                                    Draws(scenario, now))}
    ELSE {<<schedule, nextId>>}

\* 2., 3. the spawns, read off the planes of the previous tick
SpawnStep(now, sched1, rv) ==
    ProcessSpawns(1, FlightsToSpawn(sched1, now), Congested(planes), rv, now,
                  [schedule |-> sched1, economy |-> economy, logs |-> logs,
                   newPlanes |-> <<>>])

\* A faulty variant: the planes spawned by the tick take their first step in
\* the next tick
PhysicsOf_SpawnedWait(now, spawned) ==
    LET pass == PhysicsPass(1, upgrades, now,
                    [allPlanes |-> planes,
                     updatedPlanes |-> <<>>,
                     occupancy |-> RebuildOccupancy(gateOccupancy, planes),
                     economy |-> spawned.economy,
                     schedule |-> spawned.schedule,
                     logs |-> spawned.logs])
    IN [pass EXCEPT !.updatedPlanes = @ \o spawned.newPlanes]

\* 4., 5. the occupancy map and the physics of every plane
PhysicsOf(now, spawned) ==
    PhysicsPass(1, upgrades, now,
                [allPlanes |-> planes \o spawned.newPlanes,
                 updatedPlanes |-> <<>>,
                 occupancy |-> RebuildOccupancy(gateOccupancy, planes),
                 economy |-> spawned.economy,
                 schedule |-> spawned.schedule,
                 logs |-> spawned.logs])

\* A faulty variant: the planes that reached DEPARTED stay in the list
Commit_KeepsDeparted(now, pass, id) ==
    /\ gameTime' = now
    /\ schedule' = pass.schedule
    /\ planes' = pass.updatedPlanes
    /\ gateOccupancy' = pass.occupancy
    /\ economy' = EconomyTick(pass.economy, upgrades, now)
    /\ logs' = pass.logs
    /\ nextId' = id
    /\ UNCHANGED <<upgrades, paused, aiEnabled, pending, scenario, call>>

\* the state the updater returns
Commit(now, pass, id) ==
    /\ gameTime' = now
    /\ schedule' = pass.schedule
    /\ planes' = SelectSeq(pass.updatedPlanes, LAMBDA q : q.status # "DEPARTED")
    /\ gateOccupancy' = pass.occupancy
    /\ economy' = EconomyTick(pass.economy, upgrades, now)
    /\ logs' = pass.logs
    /\ nextId' = id
    /\ UNCHANGED <<upgrades, paused, aiEnabled, pending, scenario, call>>

\* One unpaused firing of the interval timer.
Tick ==
    /\ ~paused
    /\ gameTime < Horizon(scenario)
    /\ \E gen \in Generated(gameTime + 1) :
         \E rv \in [FlightsToSpawn(gen[1], gameTime + 1) -> RevenueDraws(scenario)] :
            Commit(gameTime + 1,
                   PhysicsOf(gameTime + 1, SpawnStep(gameTime + 1, gen[1], rv)),
                   gen[2])

\* A faulty variant: the clock runs on while the game is paused
PausedTick_ClockRuns ==
    /\ paused
    /\ gameTime < Horizon(scenario)
    /\ gameTime' = gameTime + 1
    /\ UNCHANGED <<schedule, planes, economy, upgrades, logs, paused, aiEnabled,
                   gateOccupancy, nextId, pending, scenario, call>>

\* A firing of the interval timer while paused returns at once.
PausedTick ==
    /\ paused
    /\ UNCHANGED vars

togglePause ==
    /\ CanDo("pause")
    /\ paused' = ~paused
    /\ UNCHANGED <<gameTime, schedule, planes, economy, upgrades, logs, aiEnabled,
                   gateOccupancy, nextId, pending, scenario, call>>

\* toggleAi: the flag flips and addLog reports the new mode
toggleAi ==
    /\ CanDo("ai")
    /\ CanLog
    /\ aiEnabled' = ~aiEnabled
    /\ logs' = PushLog(logs, IF aiEnabled THEN "ai disabled" ELSE "ai online",
                       "info", gameTime)
    /\ UNCHANGED <<gameTime, schedule, planes, economy, upgrades, paused,
                   gateOccupancy, nextId, pending, scenario, call>>

\* A faulty variant: an upgrade that is already unlocked can be bought again
Refused_IgnoresUnlocked(id, ups, eco) ==
    \/ id \notin UpgradeIds
    \/ eco.balance < UpgradeCost(id)

\* !upgrade || upgrade.unlocked || prev.economy.balance < upgrade.cost
Refused(id, ups, eco) ==
    \/ id \notin UpgradeIds
    \/ ups[id]
    \/ eco.balance < UpgradeCost(id)

\* upgrade.effect(newState)
UpgradeEffect(id, eco) ==
    CASE id = "radar_system" -> [eco EXCEPT !.demand = @ + 250]
      [] id = "marketing_campaign" -> [eco EXCEPT !.tourismScore = @ + 20]
      [] OTHER -> eco

purchaseUpgrade(id) ==
    /\ CanDo("upgrade")
    /\ id \in UpgradeChoices(scenario)
    /\ IF Refused(id, upgrades, economy)
       THEN UNCHANGED vars
       ELSE /\ CanLog
            /\ upgrades' = [upgrades EXCEPT ![id] = TRUE]
            /\ economy' = UpgradeEffect(id, [economy EXCEPT
                                               !.balance = @ - UpgradeCost(id)])
            /\ logs' = PushLog(logs, "purchased", "success", gameTime)
            /\ UNCHANGED <<gameTime, schedule, planes, paused, aiEnabled,
                           gateOccupancy, nextId, pending, scenario, call>>

CampaignTypes == {"tourism", "industry"}

\* A faulty variant: the campaign is charged also when the funds are short
influenceEconomy_ChargesAnyway(type) ==
    /\ CanDo("campaign")
    /\ CanLog
    /\ type \in CampaignTypes
    /\ economy' = [economy EXCEPT
           !.balance = @ - CampaignCost,
           !.tourismScore = IF type = "tourism" THEN @ + 5 ELSE @,
           !.industryScore = IF type = "industry" THEN @ + 5 ELSE @,
           !.demand = @ + 50]
    /\ logs' = PushLog(logs, "ran campaign", "info", gameTime)
    /\ UNCHANGED <<gameTime, schedule, planes, upgrades, paused, aiEnabled,
                   gateOccupancy, nextId, pending, scenario, call>>

influenceEconomy(type) ==
    /\ CanDo("campaign")
    /\ CanLog
    /\ type \in CampaignTypes
    /\ IF economy.balance < CampaignCost
       THEN /\ logs' = PushLog(logs, "not enough funds", "warning", gameTime)
            /\ UNCHANGED economy
       ELSE /\ economy' = [economy EXCEPT
                !.balance = @ - CampaignCost,
                !.tourismScore = IF type = "tourism" THEN @ + 5 ELSE @,
                !.industryScore = IF type = "industry" THEN @ + 5 ELSE @,
                !.demand = @ + 50]
            /\ logs' = PushLog(logs, "ran campaign", "info", gameTime)
    /\ UNCHANGED <<gameTime, schedule, planes, upgrades, paused, aiEnabled,
                   gateOccupancy, nextId, pending, scenario, call>>

\* ------------------------------------------------------------------------
\* The daily event (App.tsx, geminiService)
\* ------------------------------------------------------------------------
MaxPending == 1

FALLBACK_EVENTS ==
    {[effectType |-> "demand", effectValue |-> -5],
     [effectType |-> "demand", effectValue |-> 10],
     [effectType |-> "money", effectValue |-> -1500],
     [effectType |-> "tourism", effectValue |-> 15],
     [effectType |-> "none", effectValue |-> 0],
     [effectType |-> "money", effectValue |-> 2000]}

\* a request that fails, or answers null
NoEvent == [effectType |-> "null", effectValue |-> 0]

\* JSON.parse(response.text): the generator chooses the numbers
AiAnswers(s) ==
    IF s = "expand" THEN {[effectType |-> "money", effectValue |-> 1300000]}
    ELSE IF s = "async" THEN {NoEvent, [effectType |-> "money", effectValue |-> 2000]}
    ELSE {NoEvent,
          [effectType |-> "money", effectValue |-> 1300000],
          [effectType |-> "money", effectValue |-> -180000],
          [effectType |-> "demand", effectValue |-> 160]}

\* A faulty variant: the effect is applied to the economy of the first render
ApplyEvent_OnStaleState(eco, e) ==
    CASE e.effectType = "money" ->
             [eco EXCEPT !.balance = INITIAL_ECONOMY.balance + e.effectValue]
      [] e.effectType = "tourism" ->
             [eco EXCEPT !.tourismScore = INITIAL_ECONOMY.tourismScore + e.effectValue]
      [] e.effectType = "demand" ->
             [eco EXCEPT !.demand = INITIAL_ECONOMY.demand + 10 * e.effectValue]
      [] OTHER -> eco

\* the setGameState of the event hook
ApplyEvent(eco, e) ==
    CASE e.effectType = "money" -> [eco EXCEPT !.balance = @ + e.effectValue]
      [] e.effectType = "tourism" -> [eco EXCEPT !.tourismScore = @ + e.effectValue]
      [] e.effectType = "demand" -> [eco EXCEPT !.demand = @ + 10 * e.effectValue]
      [] OTHER -> eco

\* The event timer fires with the AI off or without a key: generateDailyEvent
\* answers at once from the fallback pool (or with null, which changes nothing).
EventFallback(e) ==
    /\ CanDo("event")
    /\ CanLog
    /\ ~paused
    /\ ~aiEnabled \/ ~apiKey
    /\ e \in FALLBACK_EVENTS
    /\ logs' = PushLog(logs, "event", "ai", gameTime)
    /\ economy' = ApplyEvent(economy, e)
    /\ UNCHANGED <<gameTime, schedule, planes, upgrades, paused, aiEnabled,
                   gateOccupancy, nextId, pending, scenario, call>>

\* The event timer fires with the AI on: the request leaves, the handler awaits.
EventRequest ==
    /\ CanDo("event")
    /\ ~paused
    /\ aiEnabled /\ apiKey
    /\ pending < MaxPending
    /\ pending' = pending + 1
    /\ UNCHANGED <<gameTime, schedule, planes, economy, upgrades, logs, paused,
                   aiEnabled, gateOccupancy, nextId, scenario, call>>

\* The awaited answer arrives: null and failures end the handler, an event is
\* logged and applied to the state of that moment.
EventResponse(e) ==
    /\ CanDo("event")
    /\ pending > 0
    /\ e \in AiAnswers(scenario)
    /\ pending' = pending - 1
    /\ IF e = NoEvent
       THEN UNCHANGED <<logs, economy>>
       ELSE /\ CanLog
            /\ logs' = PushLog(logs, "event", "ai", gameTime)
            /\ economy' = ApplyEvent(economy, e)
    /\ UNCHANGED <<gameTime, schedule, planes, upgrades, paused, aiEnabled,
                   gateOccupancy, nextId, scenario, call>>

\* ------------------------------------------------------------------------
\* The generator service (geminiService) and the handlers that await it
\* ------------------------------------------------------------------------
\* no helper has been called
NoCall == [fn |-> "none"]

\* what ai.models.generateContent can do: reject (unreachable, refused), or
\* answer with no text, with text that is not JSON, with the JSON null, or
\* with a JSON object
GenOutcomes == {"throws", "empty", "text", "null", "object"}

Thrown == [kind |-> "thrown"]

\* A faulty variant: the exception is passed on
TryCatch_Rethrows(attempt, onError) == attempt

\* try { attempt } catch (error) { return onError }
TryCatch(attempt, onError) ==
    IF attempt.kind = "thrown" THEN onError ELSE attempt

Tip(text) == [kind |-> "tip", text |-> text]

generateAdvisorTip(aiOn, key, outcome) ==
    IF ~aiOn \/ ~key
    THEN Tip("fallback tip")
    ELSE TryCatch(CASE outcome = "throws" -> Thrown
                    [] outcome = "empty" -> Tip("focus on landing")
                    [] OTHER -> Tip("generated tip"),
                  Tip("coffee break"))

Decision(accepted, message) ==
    [kind |-> "decision", accepted |-> accepted, message |-> message]

\* what a JSON object of the generator may say: accepted is "true", "false"
\* or "missing", message is some text or "" when missing
Sayings == [accepted : {"true", "false", "missing"}, message : {"our answer", ""}]

\* roll is Math.floor(Math.random() * 12000): roll < chance there is
\* Math.random() < (offer - 3000) / 12000 here
generateAirlineNegotiation(offer, aiOn, key, roll, outcome, said) ==
    IF ~aiOn \/ ~key
    THEN LET chance == Min(Max(IF offer > 3000 THEN offer - 3000 ELSE 0, 0), 12000)
             accepted == roll < chance
         IN Decision(accepted,
                     IF accepted THEN "thrilled to accept"
                     ELSE IF offer < 5000 THEN "insulting" ELSE "need more")
    ELSE TryCatch(CASE outcome \in {"throws", "text", "null"} -> Thrown
                    [] outcome = "empty" -> Decision(FALSE, "we will consider it")
                    [] OTHER ->
                         Decision(said.accepted = "true",
                                  IF said.message = "" THEN "we will consider it"
                                  ELSE said.message),
                  Decision(FALSE, "negotiation failed"))

Event(e) == [kind |-> "event", event |-> e]

\* coin is Math.random() > 0.5, pick the entry of FALLBACK_EVENTS drawn
generateDailyEvent(aiOn, key, coin, pick, outcome, answer) ==
    IF ~aiOn \/ ~key
    THEN IF coin THEN Event(NoEvent) ELSE Event(pick)
    ELSE TryCatch(CASE outcome \in {"throws", "text"} -> Thrown
                    [] outcome \in {"empty", "null"} -> Event(NoEvent)
                    [] OTHER -> Event(answer),
                  Event(NoEvent))

\* Dashboard.handleConsultAdvisor
handleConsultAdvisor(outcome) ==
    /\ call = NoCall
    /\ call' = [fn |-> "generateAdvisorTip",
                args |-> [aiOn |-> aiEnabled, outcome |-> outcome],
                out |-> generateAdvisorTip(aiEnabled, apiKey, outcome)]
    /\ UNCHANGED <<gameTime, schedule, planes, economy, upgrades, logs, paused,
                   aiEnabled, gateOccupancy, nextId, pending, scenario>>

Offers == {2000, 4000, 9000, 15000, 20000}
Rolls == {0, 5999, 11999}

\* influenceEconomy, as the updater of the state
Campaigned(eco, lg, type, now) ==
    IF eco.balance < CampaignCost
    THEN [economy |-> eco, logs |-> PushLog(lg, "not enough funds", "warning", now)]
    ELSE [economy |-> [eco EXCEPT
                          !.balance = @ - CampaignCost,
                          !.tourismScore = IF type = "tourism" THEN @ + 5 ELSE @,
                          !.industryScore = IF type = "industry" THEN @ + 5 ELSE @,
                          !.demand = @ + 50],
          logs |-> PushLog(lg, "ran campaign", "info", now)]

\* Dashboard.handleNegotiate: the decision is logged, an accepted offer runs
\* the tourism campaign
handleNegotiate(offer, roll, outcome, said) ==
    LET result == generateAirlineNegotiation(offer, aiEnabled, apiKey, roll,
                                             outcome, said)
        accepted == result.kind = "decision" /\ result.accepted
        logged == PushLog(logs, IF accepted THEN "negotiation success"
                                            ELSE "negotiation failed",
                          IF accepted THEN "success" ELSE "error", gameTime)
        after == IF accepted THEN Campaigned(economy, logged, "tourism", gameTime)
                 ELSE [economy |-> economy, logs |-> logged]
    IN /\ call = NoCall
       /\ call' = [fn |-> "generateAirlineNegotiation",
                   args |-> [aiOn |-> aiEnabled, outcome |-> outcome,
                             offer |-> offer, roll |-> roll],
                   out |-> result]
       /\ IF result.kind = "thrown"
          THEN UNCHANGED <<economy, logs>>
          ELSE economy' = after.economy /\ logs' = after.logs
       /\ UNCHANGED <<gameTime, schedule, planes, upgrades, paused, aiEnabled,
                      gateOccupancy, nextId, pending, scenario>>

Answers ==
    {[effectType |-> "money", effectValue |-> 2000],
     [effectType |-> "demand", effectValue |-> 16]}

\* the event timer of App, request and answer in one step
dailyEventTimer(coin, pick, outcome, answer) ==
    LET result == generateDailyEvent(aiEnabled, apiKey, coin, pick, outcome, answer)
        happened == result.kind = "event" /\ result.event # NoEvent
    IN /\ call = NoCall
       /\ ~paused
       /\ call' = [fn |-> "generateDailyEvent",
                   args |-> [aiOn |-> aiEnabled, outcome |-> outcome],
                   out |-> result]
       /\ IF happened
          THEN /\ logs' = PushLog(logs, "event", "ai", gameTime)
               /\ economy' = ApplyEvent(economy, result.event)
          ELSE UNCHANGED <<economy, logs>>
       /\ UNCHANGED <<gameTime, schedule, planes, upgrades, paused, aiEnabled,
                      gateOccupancy, nextId, pending, scenario>>

\* ------------------------------------------------------------------------
\* Construction and the specifications
\* ------------------------------------------------------------------------
\* the state after construction in a scenario of S, the harness holding one
\* of the calls of C
InitCalling(S, C) ==
    /\ scenario \in S
    /\ gameTime = 0
    /\ schedule = <<>>
    /\ planes = <<>>
    /\ economy = INITIAL_ECONOMY
    /\ upgrades = [u \in UpgradeIds |-> FALSE]
    /\ logs = <<>>
    /\ paused = FALSE
    /\ aiEnabled = apiKey
    /\ gateOccupancy = [g \in {"gate_1", "gate_2", "gate_3"} |-> NULL]
    /\ nextId = 1
    /\ pending = 0
    /\ call \in C

InitWith(S) == InitCalling(S, {NoCall})

Init == InitWith(OpsScenarios)

Next ==
    \/ Tick
    \/ PausedTick
    \/ togglePause
    \/ EventRequest
    \/ \E e \in AiAnswers(scenario) : EventResponse(e)
    \/ \E id \in UpgradeChoices(scenario) : purchaseUpgrade(id)

Spec == Init /\ [][Next]_vars

\* The economy and the commands: few ticks, every command and event
EconInit == InitWith(EconScenarios)

EconNext ==
    \/ Tick
    \/ PausedTick
    \/ togglePause
    \/ toggleAi
    \/ \E id \in UpgradeChoices(scenario) : purchaseUpgrade(id)
    \/ \E type \in CampaignTypes : influenceEconomy(type)
    \/ \E e \in FALLBACK_EVENTS : EventFallback(e)
    \/ EventRequest
    \/ \E e \in AiAnswers(scenario) : EventResponse(e)

EconSpec == EconInit /\ [][EconNext]_vars

\* The generator service: one query of each kind, with the AI on or off
ServiceInit == InitWith(ServiceScenarios)

ServiceNext ==
    \/ toggleAi
    \/ \E outcome \in GenOutcomes : handleConsultAdvisor(outcome)
    \/ \E offer \in Offers, roll \in Rolls, outcome \in GenOutcomes, said \in Sayings :
           handleNegotiate(offer, roll, outcome, said)
    \/ \E coin \in BOOLEAN, pick \in FALLBACK_EVENTS, outcome \in GenOutcomes,
          answer \in Answers :
           dailyEventTimer(coin, pick, outcome, answer)

ServiceSpec == ServiceInit /\ [][ServiceNext]_vars

\* The calendar helpers alone.  The ticks looked at are those around the
\* first changes of hour and day and around every change of month up to
\* CalendarMonths months after the start.
CalendarTicks ==
    {t \in UNION {{b - 2, b - 1, b, b + 1, b + 2} :
                     b \in {60, minutesInDay}
                           \cup {k * minutesInMonth : k \in 0..CalendarMonths}} :
        t >= 0}

\* formatTime and the header of the dashboard: the date of a tick
getGameDateCall(ticks) ==
    /\ call' = [fn |-> "getGameDate", args |-> [ticks |-> ticks],
                out |-> getGameDate(ticks)]
    /\ UNCHANGED <<gameTime, schedule, planes, economy, upgrades, logs, paused,
                   aiEnabled, gateOccupancy, nextId, pending, scenario>>

\* generateSchedule: the sine of the month of the pass
seasonalityCall(ticks) ==
    /\ call' = [fn |-> "seasonality",
                args |-> [ticks |-> ticks, month |-> getGameDate(ticks).monthIndex],
                out |-> SinTwice(getGameDate(ticks).monthIndex)]
    /\ UNCHANGED <<gameTime, schedule, planes, economy, upgrades, logs, paused,
                   aiEnabled, gateOccupancy, nextId, pending, scenario>>

\* trafficData: the sine of the month i months after the month of today
projectionCall(ticks, i) ==
    /\ call' = [fn |-> "projection",
                args |-> [ticks |-> ticks, month |-> getGameDate(ticks).monthIndex + i],
                out |-> ProjectedSinTwice(getGameDate(ticks).monthIndex + i)]
    /\ UNCHANGED <<gameTime, schedule, planes, economy, upgrades, logs, paused,
                   aiEnabled, gateOccupancy, nextId, pending, scenario>>

\* the first ticks of the months
MonthStarts == {k * minutesInMonth : k \in 0..CalendarMonths}

CalendarInit == InitWith({"calendar"})

CalendarNext ==
    \/ \E ticks \in CalendarTicks : getGameDateCall(ticks)
    \/ \E ticks \in MonthStarts : seasonalityCall(ticks)
    \/ \E ticks \in MonthStarts, i \in 0..(12 * ProjectionYears - 1) :
           projectionCall(ticks, i)

CalendarSpec == CalendarInit /\ [][CalendarNext]_vars

\* The acceptance test of the scheduler on its own: committed windows that
\* start at the ticks of SweepStarts, a candidate and the number of gates.
MaxCommitted == 4
SweepStarts == {0, 1, 450, 451, 900}

CommittedChoices ==
    UNION {[1..n -> {Interval(t) : t \in SweepStarts}] : n \in 0..MaxCommitted}

\* the inputs of one test: the committed windows, the time drawn for the
\* candidate and whether the terminal expansion is unlocked
SweepInputs ==
    {[fn |-> "input",
      args |-> [committed |-> c, scheduledTime |-> t,
                totalGates |-> TotalGates([u \in UpgradeIds |-> u = "terminal_exp_1" /\ x])]] :
        c \in CommittedChoices, t \in SweepStarts, x \in BOOLEAN}

\* the while body of generateSchedule up to if (maxConcurrent <= totalGates)
sweepCall ==
    /\ call.fn = "input"
    /\ call' = [fn |-> "sweep", args |-> call.args,
                out |-> ValidSlot(call.args.committed, call.args.scheduledTime,
                                  call.args.totalGates)]
    /\ UNCHANGED <<gameTime, schedule, planes, economy, upgrades, logs, paused,
                   aiEnabled, gateOccupancy, nextId, pending, scenario>>

SweepInit == InitCalling({"sweep"}, SweepInputs)

SweepNext == sweepCall

SweepSpec == SweepInit /\ [][SweepNext]_vars

\* A scheduler pass on its own: the tick of the pass, the demand, the
\* terminal expansion, the Scheduled flights still ahead (sorted, within
\* capacity) and the slots the candidates may draw.
PassTimes == {1, 360}
PassDemands == {100, 400}
PassSlots == {{0}, {0, 359}, {180}}
PassOffsets == {60, 250, 419}
PassFirstId == 10

PassSchedules(now, totalGates) ==
    LET sorted == {q \in UNION {[1..n -> PassOffsets] :
                                  n \in 0..Min(MaxCommitted, totalGates)} :
                      \A k \in 1..(Len(q) - 1) : q[k] <= q[k + 1]}
    IN {[k \in 1..Len(o) |-> [id |-> k, type |-> "regional",
                              scheduledTime |-> now + o[k], status |-> "Scheduled"]] :
           o \in sorted}

PassInputsAt(now, x) ==
    {[fn |-> "input",
      args |-> [currentTime |-> now, baseDemand |-> d,
                ups |-> [u \in UpgradeIds |-> u = "terminal_exp_1" /\ x],
                schedule |-> sched, id |-> PassFirstId,
                env |-> [slots |-> <<>>, rest |-> S,
                         types |-> {"regional", "narrowbody"}]]] :
        d \in PassDemands, S \in PassSlots,
        sched \in PassSchedules(now, IF x THEN 4 ELSE 3)}

PassInputs == UNION {PassInputsAt(now, x) : now \in PassTimes, x \in BOOLEAN}

\* the results generateSchedule can return for the arguments a
PassResults(a) ==
    generateSchedule(a.currentTime, a.baseDemand, a.ups, a.schedule, a.id, a.env)

\* generateSchedule(currentTime, baseDemand)
generateScheduleCall ==
    /\ call.fn = "input"
    /\ \E g \in PassResults(call.args) :
           call' = [fn |-> "generateSchedule", args |-> call.args,
                    out |-> [batch |-> g[1], nextId |-> g[2]]]
    /\ UNCHANGED <<gameTime, schedule, planes, economy, upgrades, logs, paused,
                   aiEnabled, gateOccupancy, nextId, pending, scenario>>

PassInit == InitCalling({"pass"}, PassInputs)

PassNext == generateScheduleCall

PassSpec == PassInit /\ [][PassNext]_vars

\* The operator pauses, resumes and gives commands during the first ticks
PauseInit == InitWith({"pausing"})

PauseNext ==
    \/ Tick
    \/ PausedTick
    \/ togglePause
    \/ toggleAi
    \/ \E id \in UpgradeChoices(scenario) : purchaseUpgrade(id)
    \/ \E type \in CampaignTypes : influenceEconomy(type)

PauseSpec == PauseInit /\ [][PauseNext]_vars

\* A long run of the tick alone
LongInit == InitWith(LongScenarios)

LongNext == Tick

LongSpec == LongInit /\ [][LongNext]_vars

\* The interval timer keeps firing.  An unpaused firing below the horizon
\* always completes and is the only operation that advances gameTime, so the
\* condition is put on the advance of gameTime.
Advance ==
    /\ ~paused
    /\ gameTime < Horizon(scenario)
    /\ gameTime' = gameTime + 1

LiveSpec == Init /\ [][Next]_vars /\ WF_gameTime(Advance)

\* ------------------------------------------------------------------------
\* Properties
\* ------------------------------------------------------------------------
\* the flights of the committed schedule that are Scheduled or On Time
ActiveFlights ==
    {i \in 1..Len(schedule) : schedule[i].status \in {"Scheduled", "On Time"}}

\* how many of their windows [scheduledTime, scheduledTime + 450) contain t
WindowsAt(t) ==
    Cardinality({i \in ActiveFlights :
                    /\ schedule[i].scheduledTime <= t
                    /\ t < schedule[i].scheduledTime + GATE_OCCUPANCY_WINDOW})

\* C1: at every instant the number of Scheduled or On Time flights whose
\* gate-occupancy window contains the instant is at most the number of
\* unlocked gates (3, or 4 with terminal_exp_1).  The count only rises at the
\* start of a window, so the instants to look at are the scheduled times.
WindowsWithinGates ==
    \A i \in ActiveFlights :
        WindowsAt(schedule[i].scheduledTime) <= TotalGates(upgrades)

\* C1 happens: with the fourth gate unlocked, four windows overlap, one of
\* them of a flight that has spawned, after a second scheduler pass
WindowsWithinGates_Reached ==
    /\ hasTerminalExp(upgrades)
    /\ gameTime > SchedulePeriod
    /\ \E i \in ActiveFlights : WindowsAt(schedule[i].scheduledTime) = 4
    /\ \E i \in ActiveFlights : schedule[i].status = "On Time"

\* C2: at the end of every tick no two distinct aircraft of the active set
\* have the same non-null target gate.
GatesUnique ==
    \A i, j \in 1..Len(planes) :
        (i # j /\ planes[i].targetGateId # NoGate)
            => planes[i].targetGateId # planes[j].targetGateId

\* the planes that claimed a gate in the tick just committed: they stand at
\* the apron entry with a gate and the waypoints to it
JustClaimed ==
    {i \in 1..Len(planes) :
        /\ planes[i].status = "TAXI_IN"
        /\ planes[i].targetGateId # NoGate
        /\ planes[i].waypoints = GateWaypoints(planes[i].targetGateId)}

\* C2 happens: at least two aircraft claimed their gates at the apron entry
\* in the same tick, and three gates are held
GatesUnique_Reached ==
    /\ Cardinality({i \in JustClaimed : planes[i].pos = At(1300, 850)}) >= 2
    /\ Cardinality({planes[i].targetGateId : i \in 1..Len(planes)} \ {NoGate}) >= 3

\* the planes of the active set, by flight id
MaxAircraft == 20
SpawnCutoff == 600

Active(id) == \E i \in 1..Len(planes) : planes[i].id = id

\* C3: with the timer firing, every aircraft in the active set leaves it again
\* (it reaches DEPARTED and is filtered out) unless the operator pauses the
\* game.  The runs end at tick MaxTime, so the aircraft looked at are those in
\* the active set up to tick SpawnCutoff.
EveryAircraftDeparts ==
    \A id \in 1..MaxAircraft :
        (Active(id) /\ gameTime <= SpawnCutoff /\ ~paused) ~> (~Active(id) \/ paused)

\* Some plane has left its gate (the log of its push-back) and no plane is on
\* the way out, so it has been removed; a go-around has happened and other
\* planes are still in the active set.
EveryAircraftDeparts_Reached ==
    /\ \E k \in 1..Len(logs) : logs[k].message = "departed"
    /\ \E k \in 1..Len(logs) : logs[k].message = "go around"
    /\ \A i \in 1..Len(planes) :
          planes[i].status \notin {"TAXI_OUT", "HOLD_SHORT", "TAKEOFF"}
    /\ planes # <<>>

\* C4: reputation is within its declared bounds [0, 100] in every state.
ReputationInBounds == economy.reputation >= 0 /\ economy.reputation <= 100

\* C5: demand is within its declared bounds [10, 200] (100 to 2000 tenths) in
\* every state.
DemandInBounds == economy.demand >= 100 /\ economy.demand <= 2000

\* the ids an operator can ask for
AnyUpgradeId == UpgradeIds \cup {"unknown_upgrade"}

\* the three cases in which a purchase is to be refused
RefusalCase(id) ==
    \/ id \notin UpgradeIds
    \/ upgrades[id]
    \/ economy.balance < UpgradeCost(id)

\* C6: a purchaseUpgrade(id) of an unknown id, of an upgrade already unlocked
\* or with balance < cost changes nothing: balance, demand, tourism score,
\* unlocked flags and the rest of the state stay as they are.
RefusedPurchaseIsNoOp ==
    [][\A id \in AnyUpgradeId :
          (purchaseUpgrade(id) /\ RefusalCase(id)) => UNCHANGED vars]_vars

\* purchases can be refused for each reason: one upgrade is unlocked, another
\* is locked and costs more than the balance
RefusedPurchaseIsNoOp_Reached ==
    /\ CanDo("upgrade")
    /\ \E id \in UpgradeIds : upgrades[id]
    /\ \E id \in UpgradeIds : ~upgrades[id] /\ economy.balance < UpgradeCost(id)

\* C7: a successful purchaseUpgrade(id) takes exactly the cost from the
\* balance, unlocks that upgrade only and applies its effect once: radar_system
\* demand + 25 clamped to at most 200, marketing_campaign tourism + 20.
PurchaseAppliesOnce ==
    [][\A id \in UpgradeIds :
          (purchaseUpgrade(id) /\ ~RefusalCase(id)) =>
              /\ economy'.balance = economy.balance - UpgradeCost(id)
              /\ upgrades' = [upgrades EXCEPT ![id] = TRUE]
              /\ economy'.demand =
                     IF id = "radar_system" THEN Min(2000, economy.demand + 250)
                     ELSE economy.demand
              /\ economy'.tourismScore =
                     IF id = "marketing_campaign" THEN economy.tourismScore + 20
                     ELSE economy.tourismScore]_vars

\* the planes of a state with a given status, by id
WithStatus(pl, st) == {pl[i].id : i \in {j \in 1..Len(pl) : pl[j].status = st}}

\* the gate of plane id in pl, NoGate when it has none or is not there
GateOf(pl, id) ==
    LET at == {i \in 1..Len(pl) : pl[i].id = id}
    IN IF at = {} THEN NoGate ELSE pl[CHOOSE i \in at : TRUE].targetGateId

\* all unlocked gates are claimed when the next tick starts
AllGatesClaimed ==
    getFreeGate(RebuildOccupancy(gateOccupancy, planes), upgrades) = NoGate

\* the gates released by the tick just committed: the occupant has left PARKED
\* for TAXI_OUT and still stands on the gate with its three waypoints
ReleasedGates ==
    {g \in {GateList(upgrades)[k] : k \in 1..Len(GateList(upgrades))} :
        \E i \in 1..Len(planes) :
            /\ planes[i].status = "TAXI_OUT"
            /\ Len(planes[i].waypoints) = 3
            /\ planes[i].pos = At(GateX(g), GateY(g))}

\* a waiting aircraft stays waiting through a tick that starts with every gate
\* claimed
StaysWaiting ==
    AllGatesClaimed =>
        WithStatus(planes, "WAITING_FOR_GATE") \subseteq WithStatus(planes', "WAITING_FOR_GATE")

\* the tick after a release gives a released gate to a waiting aircraft
TakesReleasedGate ==
    (ReleasedGates # {} /\ WithStatus(planes, "WAITING_FOR_GATE") # {}) =>
        \E id \in WithStatus(planes, "WAITING_FOR_GATE") :
            /\ id \in WithStatus(planes', "TAXI_IN")
            /\ GateOf(planes', id) \in ReleasedGates

\* C8: an aircraft in WAITING_FOR_GATE stays there on every tick that starts
\* with all unlocked gates claimed, and on the first tick after a gate has
\* been released a waiting aircraft is assigned that gate and is TAXI_IN again.
WaitingGetsReleasedGate ==
    [][gameTime' = gameTime + 1 => (StaysWaiting /\ TakesReleasedGate)]_vars

\* A plane asks for a gate in the coming tick: it is waiting, or it is TAXI_IN
\* without a gate and its move of the tick empties its waypoint queue.
NeedsGate(p) ==
    \/ p.status = "WAITING_FOR_GATE"
    \/ /\ p.status = "TAXI_IN"
       /\ p.targetGateId = NoGate
       /\ MoveStep(TaxiSpeed(<<p, BaseSpeedQ(p.type)>>)).waypoints = <<>>

Need == {i \in 1..Len(planes) : NeedsGate(planes[i])}

\* the unlocked gates nobody holds when the coming tick starts
FreeGates ==
    {g \in {GateList(upgrades)[k] : k \in 1..Len(GateList(upgrades))} :
        GateIsFree(RebuildOccupancy(gateOccupancy, planes), g)}

\* C9: when two (or more) aircraft need a gate in the same tick and exactly
\* one gate is free, the one earliest in the aircraft array gets the gate and
\* every other one ends the tick in WAITING_FOR_GATE without a target gate.
EarliestGetsTheGate ==
    [][(gameTime' = gameTime + 1 /\ Cardinality(Need) >= 2 /\ Cardinality(FreeGates) = 1) =>
          \A i \in Need :
              IF \A j \in Need : i <= j
              THEN /\ planes[i].id \in WithStatus(planes', "TAXI_IN")
                   /\ GateOf(planes', planes[i].id) \in FreeGates
              ELSE /\ planes[i].id \in WithStatus(planes', "WAITING_FOR_GATE")
                   /\ GateOf(planes', planes[i].id) = NoGate]_vars

\* the planes that took a gate in the tick just committed: still at the apron
\* entry, with the two waypoints of their gate
ClaimedNow == {i \in JustClaimed : planes[i].pos = At(1300, 850)}

\* one plane took the only gate and a later plane of the array, arrived at the
\* apron entry in the same tick, waits without a gate
EarliestGetsTheGate_Reached ==
    \E i, j \in 1..Len(planes) :
        /\ i < j
        /\ ClaimedNow = {i}
        /\ planes[j].status = "WAITING_FOR_GATE"
        /\ planes[j].targetGateId = NoGate
        /\ planes[j].pos = planes[i].pos

\* how many windows of the flights of the schedule contain t
BatchWindowsAt(t) ==
    Cardinality({i \in 1..Len(schedule) :
                    /\ schedule[i].scheduledTime <= t
                    /\ t < schedule[i].scheduledTime + GATE_OCCUPANCY_WINDOW})

\* the candidates of the pass of tick 1
FirstPassCandidates ==
    NumFlights(EffectiveDemand(INITIAL_ECONOMY.demand, getGameDate(1).monthIndex))

\* C10: the pass of the first tick, run on the empty schedule with 3 gates,
\* leaves a batch with at most 3 windows over any instant, whatever slots are
\* drawn; the candidates that would be a 4th are dropped.
FirstBatchWithinGates ==
    (gameTime = 1 /\ ~hasTerminalExp(upgrades)) =>
        /\ \A i \in 1..Len(schedule) : BatchWindowsAt(schedule[i].scheduledTime) <= 3
        /\ \A i \in 1..Len(schedule) : schedule[i].status = "Scheduled"
        /\ Len(schedule) = nextId - 1

\* a batch of three flights at three different times, all three windows over
\* the last start, drawn from more candidates than gates
FirstBatchWithinGates_Reached ==
    /\ gameTime = 1
    /\ ~hasTerminalExp(upgrades)
    /\ FirstPassCandidates > 3
    /\ Len(schedule) = 3
    /\ schedule[1].scheduledTime < schedule[2].scheduledTime
    /\ schedule[2].scheduledTime < schedule[3].scheduledTime
    /\ BatchWindowsAt(schedule[3].scheduledTime) = 3

\* the status of flight id in a schedule, "absent" when it has no entry
FlightStatus(sched, id) ==
    LET at == {i \in 1..Len(sched) : sched[i].id = id}
    IN IF at = {} THEN "absent" ELSE sched[CHOOSE i \in at : TRUE].status

\* the positions of the planes of flight id
PlanesOf(pl, id) == {k \in 1..Len(pl) : pl[k].id = id}

\* flight id has been spawned by the tick: On Time, with exactly one aircraft,
\* new and in APPROACH
SpawnedNow(id) ==
    /\ FlightStatus(schedule', id) = "On Time"
    /\ PlanesOf(planes, id) = {}
    /\ Cardinality(PlanesOf(planes', id)) = 1
    /\ \A k \in PlanesOf(planes', id) : planes'[k].status = "APPROACH"

\* flight id has been rejected by the tick: Diverted, with no aircraft
DivertedNow(id) ==
    /\ FlightStatus(schedule', id) = "Diverted"
    /\ PlanesOf(planes', id) = {}

\* C11: every Scheduled flight is spawned or rejected on the tick its scheduled
\* time arrives, also when a scheduler pass runs on that tick, and until then
\* it stays in the schedule as Scheduled.
EveryFlightSpawnsOrDiverts ==
    [][gameTime' = gameTime + 1 =>
          \A i \in 1..Len(schedule) :
              schedule[i].status = "Scheduled" =>
                  IF schedule[i].scheduledTime <= gameTime'
                  THEN SpawnedNow(schedule[i].id) \/ DivertedNow(schedule[i].id)
                  ELSE FlightStatus(schedule', schedule[i].id) = "Scheduled"]_vars

\* the flights whose scheduled time is the tick just taken
Arriving == {i \in 1..Len(schedule') : schedule'[i].scheduledTime = gameTime'}

\* the planes that leave their gate in the tick, and their revenue
PushedBack ==
    {i \in 1..Len(planes) :
        planes[i].status = "PARKED" /\ planes[i].id \in WithStatus(planes', "TAXI_OUT")}

RECURSIVE RevenueOf(_)
RevenueOf(S) ==
    IF S = {} THEN 0
    ELSE LET i == CHOOSE k \in S : TRUE
         IN planes[i].revenue + RevenueOf(S \ {i})

\* the planes that start a go-around in the tick
WentAround ==
    {i \in 1..Len(planes) :
        planes[i].status # "GO_AROUND" /\ planes[i].id \in WithStatus(planes', "GO_AROUND")}

\* the condition of the admission control, on the planes the tick starts with
OverThresholds ==
    \/ Cardinality({i \in 1..Len(planes) : planes[i].status = "WAITING_FOR_GATE"}) > 2
    \/ Cardinality({i \in 1..Len(planes) : planes[i].status = "HOLD_SHORT"}) > 3

Removed == {i \in 1..Len(planes) : PlanesOf(planes', planes[i].id) = {}}

\* the arriving flights the tick has diverted
DivertedArrivals == {i \in Arriving : schedule'[i].status = "Diverted"}

OnTheWayOut == {"TAXI_OUT", "HOLD_SHORT", "TAKEOFF"}

\* C14, as stated: the revenue of an aircraft is credited on the tick it
\* reaches DEPARTED, so a tick changes the balance by the revenue of the
\* aircraft removed in it (and by the penalty of the flights it diverts).
RevenueOnDeparted ==
    [][gameTime' = gameTime + 1 =>
          economy'.balance = economy.balance + RevenueOf(Removed)
                             - DivertPenalty * Cardinality(DivertedArrivals)]_vars

\* C14, as the program does it: the revenue of an aircraft is credited exactly
\* once, on the tick it leaves PARKED for TAXI_OUT.  A tick changes the balance
\* by the revenue of the aircraft that leave their gate in it (and by the
\* penalty of the flights it diverts), and an aircraft on its way out is never
\* PARKED again.
RevenueOnPushBack ==
    [][gameTime' = gameTime + 1 =>
          /\ economy'.balance = economy.balance + RevenueOf(PushedBack)
                                - DivertPenalty * Cardinality(DivertedArrivals)
          /\ \A i \in 1..Len(planes) :
                planes[i].status \in OnTheWayOut =>
                    \A k \in PlanesOf(planes', planes[i].id) :
                        planes'[k].status \in OnTheWayOut]_vars

\* an aircraft has just left its gate and its revenue is in the balance, and
\* another one is about to reach the end of the runway
RevenueOnPushBack_Reached ==
    /\ ReleasedGates # {}
    /\ economy.balance >= INITIAL_ECONOMY.balance + 2 * 1500
    /\ \E i \in 1..Len(planes) : planes[i].status = "TAKEOFF"

\* C15: when the departure event of an aircraft fires, the schedule entry of
\* its flight exists and has status Departed afterwards.
DepartureMarksFlight ==
    [][gameTime' = gameTime + 1 =>
          \A i \in PushedBack : FlightStatus(schedule', planes[i].id) = "Departed"]_vars

\* C16: the aircraft list committed by a tick holds no aircraft with status
\* DEPARTED: an aircraft is removed in the tick in which it reaches it.
NoDepartedInList == \A i \in 1..Len(planes) : planes[i].status # "DEPARTED"

\* more aircraft have left their gates (by the log) than are on their way
\* out: one of them has reached DEPARTED and is gone, while another is taking
\* off
NoDepartedInList_Reached ==
    /\ Cardinality({k \in 1..Len(logs) : logs[k].message = "departed"})
          > Cardinality({i \in 1..Len(planes) : planes[i].status \in OnTheWayOut})
    /\ \E i \in 1..Len(planes) : planes[i].status = "TAKEOFF"

\* C17: a scheduler pass tops up.  Every flight that is Scheduled with a
\* scheduled time after the tick is in the schedule after the tick with the
\* same id, scheduled time and status, and the committed schedule is sorted by
\* scheduled time ascending.
PassTopsUp ==
    [][gameTime' = gameTime + 1 =>
          /\ \A i \in 1..Len(schedule) :
                (schedule[i].status = "Scheduled" /\ schedule[i].scheduledTime > gameTime') =>
                    \E j \in 1..Len(schedule') :
                        /\ schedule'[j].id = schedule[i].id
                        /\ schedule'[j].scheduledTime = schedule[i].scheduledTime
                        /\ schedule'[j].status = schedule[i].status
          /\ \A a, b \in 1..Len(schedule') :
                a < b => schedule'[a].scheduledTime <= schedule'[b].scheduledTime]_vars

\* just after a periodic pass: a flight of an earlier pass is still pending
\* and flights of this pass stand behind it
PassTopsUp_Reached ==
    /\ gameTime > 0
    /\ gameTime % SchedulePeriod = 0
    /\ \E i, j \in 1..Len(schedule) :
          /\ schedule[i].status = "Scheduled"
          /\ schedule[i].scheduledTime > gameTime
          /\ schedule[i].scheduledTime < gameTime + SlotLead
          /\ schedule[j].status = "Scheduled"
          /\ schedule[j].scheduledTime >= gameTime + SlotLead
          /\ i < j

\* what a pass leaves behind: it keeps only Scheduled flights, so the entries
\* with another status afterwards are those spawned or diverted in this tick
PassRan ==
    \A j \in 1..Len(schedule') :
        schedule'[j].status # "Scheduled" => schedule'[j].scheduledTime = gameTime'

\* C18: a scheduler pass runs on every tick at which fewer than 3 flights are
\* pending (Scheduled, not yet arrived) and on every tick that is a multiple
\* of 360.
PassWhenFewPending ==
    [][gameTime' = gameTime + 1 =>
          ((Len(Pending(schedule, gameTime')) < 3 \/ gameTime' % 360 = 0) => PassRan)]_vars

TerminalStatuses == {"Departed", "Diverted", "Cancelled"}

\* C19: Departed, Diverted and Cancelled are terminal: no tick and no command
\* changes the status of a schedule entry that has one of them, and no
\* aircraft is created for it.
TerminalStatusStays ==
    [][\A i \in 1..Len(schedule) :
          schedule[i].status \in TerminalStatuses =>
              /\ FlightStatus(schedule', schedule[i].id)
                     \in {schedule[i].status, "absent"}
              /\ PlanesOf(planes, schedule[i].id) = {}
                     => PlanesOf(planes', schedule[i].id) = {}]_vars

\* A rejected flight is still in the schedule, Diverted and without an
\* aircraft, on a later tick at which the airport is no longer congested.
TerminalStatusStays_Reached ==
    /\ ~Congested(planes)
    /\ \E i \in 1..Len(schedule) :
           /\ schedule[i].status = "Diverted"
           /\ schedule[i].scheduledTime < gameTime
           /\ PlanesOf(planes, schedule[i].id) = {}

HasLog(message) == \E k \in 1..Len(logs) : logs[k].message = message

\* C20: influenceEconomy(type) with a balance of at least 25000 takes exactly
\* 25000 from the balance, adds 5 to the chosen score and to no other, and
\* adds 5 to demand; with a balance below 25000 it leaves balance, tourism
\* score, industry score and demand as they are.
CampaignChargesOrRefuses ==
    [][\A type \in CampaignTypes :
          influenceEconomy(type) =>
              IF economy.balance >= 25000
              THEN /\ economy'.balance = economy.balance - 25000
                   /\ economy'.tourismScore =
                          economy.tourismScore + (IF type = "tourism" THEN 5 ELSE 0)
                   /\ economy'.industryScore =
                          economy.industryScore + (IF type = "industry" THEN 5 ELSE 0)
                   /\ economy'.demand = economy.demand + 5 * 10
              ELSE /\ economy'.balance = economy.balance
                   /\ economy'.tourismScore = economy.tourismScore
                   /\ economy'.industryScore = economy.industryScore
                   /\ economy'.demand = economy.demand]_vars

\* a campaign has run and a later one has been refused for lack of funds
CampaignChargesOrRefuses_Reached ==
    /\ HasLog("ran campaign")
    /\ logs # <<>> /\ logs[1].message = "not enough funds"
    /\ economy.balance < 25000
    /\ economy.tourismScore + economy.industryScore
           = INITIAL_ECONOMY.tourismScore + INITIAL_ECONOMY.industryScore + 5

\* the feed after the step is k new entries, all of this moment, in front of
\* the feed before the step, cut after 50 entries
AddedInFront(k) ==
    /\ Len(logs') = Min(50, Len(logs) + k)
    /\ \A j \in 1..Len(logs') :
           IF j <= k THEN logs'[j].timestamp = gameTime'
                     ELSE logs'[j] = logs[j - k]

\* C21: the log feed never holds more than 50 entries and is newest-first:
\* whatever a tick or a command adds is at the front, what was there follows
\* in its old order, and what no longer fits is dropped from the old end.
LogFeedNewestFirst ==
    [][/\ Len(logs') <= 50
       /\ \E k \in 0..Len(logs') : AddedInFront(k)
       /\ \A j \in 1..(Len(logs') - 1) :
              logs'[j].timestamp >= logs'[j + 1].timestamp]_vars

\* the feed is full and its first entries have been dropped
LogFeedNewestFirst_Reached ==
    /\ Len(logs) = 50
    /\ logs[50].timestamp > SlotLead + SchedulePeriod
    /\ logs[1].timestamp > logs[50].timestamp

CountLogs(message) ==
    Cardinality({k \in 1..Len(logs) : logs[k].message = message})

\* the effect of event e on one counter of the economy
EffectOn(e, counter) == IF e.effectType = counter THEN e.effectValue ELSE 0

\* the clock moves only by one full unpaused tick, which leaves the requests
\* in flight alone
ClockStep ==
    gameTime' # gameTime =>
        /\ ~paused
        /\ gameTime' = gameTime + 1
        /\ pending' = pending

\* an answer is applied between two ticks, to the economy of that moment
AnswerStep ==
    \A e \in AiAnswers(scenario) :
        EventResponse(e) =>
            /\ gameTime' = gameTime
            /\ planes' = planes /\ schedule' = schedule
            /\ gateOccupancy' = gateOccupancy
            /\ economy'.balance = economy.balance + EffectOn(e, "money")
            /\ economy'.tourismScore = economy.tourismScore + EffectOn(e, "tourism")
            /\ economy'.demand = economy.demand + 10 * EffectOn(e, "demand")
            /\ economy'.industryScore = economy.industryScore
            /\ economy'.reputation = economy.reputation

\* in the run with events of 2000 each, the balance is the sum of everything
\* the ticks and the events have done to it
NothingLost ==
    scenario = "async" =>
        economy.balance = INITIAL_ECONOMY.balance + 1500 * CountLogs("departed")
                            + 2000 * CountLogs("event")
                            - 500 * CountLogs("diverted")

\* C22: the tick loop never waits on the external generator: a timer firing
\* advances the clock by exactly 1 whether or not a request is pending and
\* leaves the request alone; an answer is applied as one update between two
\* ticks; no change of a tick and no effect of an event is lost.
TickNeverWaits ==
    /\ [][ClockStep /\ AnswerStep]_vars
    /\ []NothingLost

\* an event has been applied after planes have left their gates, a later
\* request is still unanswered, and the clock has gone on to the end
TickNeverWaits_Reached ==
    /\ scenario = "async"
    /\ gameTime = Horizon(scenario)
    /\ pending > 0
    /\ \E k, j \in 1..Len(logs) :
           /\ logs[k].message = "event"
           /\ logs[j].message = "departed"
           /\ logs[k].timestamp >= logs[j].timestamp

\* the generator was asked and did not answer: unreachable, or an exception
GeneratorFailed(c) == c.args.aiOn /\ apiKey /\ c.args.outcome = "throws"

\* C23: a failure of the external generator never propagates: with the AI
\* off, with no key, and when the generator throws, the advisor query returns
\* a tip, the negotiation query a decision with a message (a rejection when
\* the generator failed) and the event query no event or an event; a failed
\* event query changes no counter of the economy.
GeneratorFailureContained ==
    [][call' # call =>
          /\ call'.out.kind # "thrown"
          /\ call'.fn = "generateAdvisorTip" =>
                 call'.out.kind = "tip" /\ call'.out.text # ""
          /\ call'.fn = "generateAirlineNegotiation" =>
                 /\ call'.out.kind = "decision"
                 /\ call'.out.accepted \in BOOLEAN
                 /\ call'.out.message # ""
                 /\ GeneratorFailed(call') => ~call'.out.accepted
          /\ call'.fn = "generateDailyEvent" =>
                 /\ call'.out.kind = "event"
                 /\ ~(call'.args.aiOn /\ apiKey) =>
                        call'.out.event \in FALLBACK_EVENTS \cup {NoEvent}
                 /\ GeneratorFailed(call') =>
                        call'.out.event = NoEvent /\ economy' = economy]_vars

\* the generator has thrown in a query made with the AI on and a key
GeneratorFailureContained_Reached ==
    /\ call # NoCall
    /\ GeneratorFailed(call)
    /\ call.fn = "generateDailyEvent"
    /\ economy = INITIAL_ECONOMY

DateInRange(d) ==
    /\ d.monthIndex \in 0..11
    /\ d.day \in 1..30
    /\ d.hours \in 0..23
    /\ d.minutes \in 0..59

\* (year, month, day, hour, minute) of d1 is lexicographically <= that of d2
DateLeq(d1, d2) ==
    LET a == <<d1.year, d1.monthIndex, d1.day, d1.hours, d1.minutes>>
        b == <<d2.year, d2.monthIndex, d2.day, d2.hours, d2.minutes>>
    IN \/ a = b
       \/ \E i \in 1..5 : a[i] < b[i] /\ \A j \in 1..(i - 1) : a[j] = b[j]

SinLeq(p, q) == LeqSqrt3(p[1] - q[1], q[2] - p[2])

SeasonalCalls == {"seasonality", "projection"}

\* the multiplier 1 + 0.3 sin is within [0.7, 1.3]: the sine is within [-1, 1]
SeasonalityBounded(out) == SinLeq(<<-2, 0>>, out) /\ SinLeq(out, <<2, 0>>)

\* the scheduler and the projection give the same value for the same month
\* of the year, whatever the year
SeasonalityPeriodic ==
    (call.fn \in SeasonalCalls /\ call.args.month % 12 = call'.args.month % 12)
        => call'.out = call.out

TransitionTable ==
    {<<"APPROACH", "GO_AROUND">>, <<"APPROACH", "LANDING">>,
     <<"LANDING", "TAXI_IN">>,
     <<"TAXI_IN", "WAITING_FOR_GATE">>, <<"TAXI_IN", "PARKED">>,
     <<"WAITING_FOR_GATE", "TAXI_IN">>,
     <<"PARKED", "TAXI_OUT">>,
     <<"TAXI_OUT", "HOLD_SHORT">>,
     <<"HOLD_SHORT", "TAKEOFF">>,
     <<"TAKEOFF", "DEPARTED">>,
     <<"GO_AROUND", "APPROACH">>}

\* the status of aircraft id after the step; an aircraft that has been taken
\* out of the active set has reached DEPARTED
StatusAfter(id) ==
    IF PlanesOf(planes', id) = {} THEN "DEPARTED"
    ELSE planes'[CHOOSE k \in PlanesOf(planes', id) : TRUE].status

\* C26: every status change of an aircraft is one line of the transition
\* table, and a tick changes the status of an aircraft at most once: the
\* status before and after a step are equal or one line of the table apart.
\* An aircraft that enters the active set enters it in APPROACH.
StatusFollowsTable ==
    [][/\ \A i \in 1..Len(planes) :
             /\ Cardinality(PlanesOf(planes', planes[i].id)) <= 1
             /\ \/ StatusAfter(planes[i].id) = planes[i].status
                \/ <<planes[i].status, StatusAfter(planes[i].id)>> \in TransitionTable
       /\ \A k \in 1..Len(planes') :
             PlanesOf(planes, planes'[k].id) = {} => planes'[k].status = "APPROACH"]_vars

\* flights have been turned away because planes were waiting for gates,
\* the waiting planes have got their gates since, and a plane is taking off
StatusFollowsTable_Reached ==
    /\ HasLog("diverted") /\ HasLog("departed")
    /\ CountStatus(planes, "WAITING_FOR_GATE") = 0
    /\ CountStatus(planes, "TAKEOFF") > 0

\* the position of aircraft j when aircraft i takes its turn in the pass of
\* the step: the aircraft before i in the array have moved already
SeenPos(i, j) ==
    IF j < i /\ PlanesOf(planes', planes[j].id) # {}
    THEN planes'[CHOOSE k \in PlanesOf(planes', planes[j].id) : TRUE].pos
    ELSE planes[j].pos

\* another aircraft is taking off or landing, or is inside the runway box
RunwaySeenBusy(i) ==
    \E j \in 1..Len(planes) :
        /\ j # i
        /\ \/ planes[j].status \in {"TAKEOFF", "LANDING"}
           \/ /\ CoordGt(SeenPos(i, j), "y", 740) /\ CoordLt(SeenPos(i, j), "y", 760)
              /\ CoordGt(SeenPos(i, j), "x", 450) /\ CoordLt(SeenPos(i, j), "x", 1800)

\* an aircraft on approach is closer than x = -200
ApproachSeenClose(i) ==
    \E j \in 1..Len(planes) :
        planes[j].status = "APPROACH" /\ CoordGt(SeenPos(i, j), "x", -200)

\* C27: an aircraft leaves HOLD_SHORT for TAKEOFF only on a tick in which no
\* other aircraft occupies the runway (TAKEOFF, LANDING, or inside the runway
\* box) and no aircraft in APPROACH has x > -200; while one of the two fails
\* it stays in HOLD_SHORT at the same position.
HoldShortUntilClear ==
    [][\A i \in 1..Len(planes) :
          planes[i].status = "HOLD_SHORT" =>
              /\ StatusAfter(planes[i].id) \in {"HOLD_SHORT", "TAKEOFF"}
              /\ (RunwaySeenBusy(i) \/ ApproachSeenClose(i)) =>
                     /\ StatusAfter(planes[i].id) = "HOLD_SHORT"
                     /\ \A k \in PlanesOf(planes', planes[i].id) :
                            planes'[k].pos = planes[i].pos]_vars

\* an aircraft holds short with nobody taking off or landing: what holds it
\* is an aircraft close on approach
HoldShortUntilClear_Reached ==
    /\ CountStatus(planes, "HOLD_SHORT") > 0
    /\ CountStatus(planes, "TAKEOFF") + CountStatus(planes, "LANDING") = 0
    /\ \E k \in 1..Len(planes) :
           planes[k].status = "APPROACH" /\ CoordGt(planes[k].pos, "x", -200)

\* C28: an aircraft that enters HOLD_SHORT holds for its timer of 20 ticks
\* before it can be released: it is cleared for TAKEOFF only when the timer
\* it was given on entering has run out, also when the runway is clear.
HoldShortTimerRespected ==
    [][\A i \in 1..Len(planes) :
          (planes[i].status = "HOLD_SHORT" /\ StatusAfter(planes[i].id) = "TAKEOFF")
              => planes[i].timer = 0]_vars

\* aircraft i of the step, as it is after the step (it is still active)
PlaneAfter(i) == planes'[CHOOSE k \in PlanesOf(planes', planes[i].id) : TRUE]

\* C29: an aircraft that becomes PARKED gets a dwell timer of 300 ticks; it
\* stays PARKED, holding its gate, while the timer counts down by 1 per tick;
\* when the timer is 0 it moves to TAXI_OUT with its target gate cleared; it
\* never leaves PARKED before the timer is 0.
ParkedDwell ==
    [][gameTime' # gameTime =>
          \A i \in 1..Len(planes) :
              /\ (planes[i].status # "PARKED" /\ StatusAfter(planes[i].id) = "PARKED") =>
                     /\ PlaneAfter(i).timer = 300
                     /\ PlaneAfter(i).targetGateId # NoGate
              /\ (planes[i].status = "PARKED" /\ planes[i].timer > 0) =>
                     /\ StatusAfter(planes[i].id) = "PARKED"
                     /\ PlaneAfter(i).timer = planes[i].timer - 1
                     /\ PlaneAfter(i).targetGateId = planes[i].targetGateId
                     /\ PlaneAfter(i).targetGateId # NoGate
                     /\ gateOccupancy'[planes[i].targetGateId] = planes[i].id
              /\ (planes[i].status = "PARKED" /\ planes[i].timer = 0) =>
                     /\ StatusAfter(planes[i].id) = "TAXI_OUT"
                     /\ PlaneAfter(i).targetGateId = NoGate]_vars

\* one aircraft is at the end of its dwell while another has just parked
ParkedDwell_Reached ==
    \E i, j \in 1..Len(planes) :
        /\ planes[i].status = "PARKED" /\ planes[i].timer = 0
        /\ planes[j].status = "PARKED" /\ planes[j].timer >= 200

\* the aircraft of the state after the step that the tick has spawned
SpawnedInTick == {k \in 1..Len(planes') : PlanesOf(planes, planes'[k].id) = {}}

\* the aircraft of the state after the step that took a gate in the tick
ClaimedInTick ==
    {k \in 1..Len(planes') :
        /\ planes'[k].targetGateId # NoGate
        /\ planes'[k].targetGateId # GateOf(planes, planes'[k].id)}

\* the gates held by the aircraft the tick starts with
HeldBefore ==
    {planes[i].targetGateId : i \in {j \in 1..Len(planes) :
        planes[j].targetGateId # NoGate /\ planes[j].status \in GateHolders}}

\* a flight is rejected by the tick
RejectedInTick ==
    \E k \in 1..Len(logs') : logs'[k].message = "diverted" /\ logs'[k].timestamp = gameTime'

\* C30: within one tick the steps run in this order: spawn admission,
\* decided from the statuses the previous tick committed; then the snapshot of
\* the gate occupancy, built from the aircraft the previous tick committed;
\* then one step of every aircraft in array order, the aircraft spawned by the
\* tick included; a gate claimed by an earlier aircraft of the pass is
\* occupied for every later aircraft of the same pass.
TickStepOrder ==
    [][gameTime' = gameTime + 1 =>
          \* admission looks at the aircraft the tick starts with
          /\ SpawnedInTick # {} => ~OverThresholds
          /\ RejectedInTick => OverThresholds
          \* the snapshot is taken before any aircraft steps: a gate held when
          \* the tick starts is given to nobody in the tick, also when its
          \* holder leaves it in the tick, and stays recorded for that holder
          /\ \A k \in ClaimedInTick : planes'[k].targetGateId \notin HeldBefore
          /\ \A i \in PushedBack : gateOccupancy'[planes[i].targetGateId] = planes[i].id
          \* every aircraft steps once, in array order, the spawned ones last
          /\ \A k, l \in 1..Len(planes') :
                 k < l =>
                    \/ l \in SpawnedInTick
                    \/ /\ k \notin SpawnedInTick
                       /\ \E i, j \in 1..Len(planes) :
                             i < j /\ planes[i].id = planes'[k].id
                                   /\ planes[j].id = planes'[l].id
          /\ \A k \in SpawnedInTick :
                 /\ planes'[k].status = "APPROACH"
                 /\ planes'[k].pos # At(-600, 750)
                 /\ CoordGt(planes'[k].pos, "x", -600)
          \* a claim made earlier in the pass is seen later in the pass
          /\ \A k, l \in ClaimedInTick :
                 k < l => /\ planes'[k].targetGateId # planes'[l].targetGateId
                          /\ gateOccupancy'[planes'[k].targetGateId] = planes'[k].id
                          /\ gateOccupancy'[planes'[l].targetGateId] = planes'[l].id]_vars

\* two aircraft took their gates in one pass, the later one a gate the earlier
\* one left free, while an aircraft spawned since then is on approach
TickStepOrder_Reached ==
    /\ \E i, j \in JustClaimed :
          /\ i < j
          /\ planes[i].pos = At(1300, 850) /\ planes[j].pos = At(1300, 850)
          /\ planes[i].targetGateId # planes[j].targetGateId
          /\ gateOccupancy[planes[j].targetGateId] = planes[j].id
    /\ HasLog("on approach")

\* the number in the name of a gate
GateNumber(g) ==
    CASE g = "gate_1" -> 1 [] g = "gate_2" -> 2 [] g = "gate_3" -> 3 [] g = "gate_4" -> 4

\* the gates the airport has: gate_4 only with the terminal expansion
OpenGates ==
    {"gate_1", "gate_2", "gate_3"}
        \cup (IF upgrades["terminal_exp_1"] THEN {"gate_4"} ELSE {})

\* the lowest-numbered gate of S, none when S is empty
LowestOf(S) ==
    IF S = {} THEN NoGate
    ELSE CHOOSE g \in S : \A h \in S : GateNumber(g) <= GateNumber(h)

\* the gates with an occupant in the committed map
OccupiedGates ==
    {g \in DOMAIN gateOccupancy : gateOccupancy[g] # NULL}

\* the gates taken in the pass before aircraft k of the state after the step
ClaimedBefore(k) == {planes'[l].targetGateId : l \in {m \in ClaimedInTick : m < k}}

\* C31: getFreeGate returns the lowest-numbered gate among gate_1, gate_2,
\* gate_3, and gate_4 only when terminal_exp_1 is unlocked, that has no
\* occupant in the map, and none when all are occupied: so it does on the
\* committed map of every state, and every aircraft that takes a gate in a
\* tick takes the lowest-numbered gate not occupied when it is served.  No
\* aircraft has target gate gate_4 while terminal_exp_1 is locked.
LowestFreeGate ==
    /\ [](getFreeGate(gateOccupancy, upgrades) = LowestOf(OpenGates \ OccupiedGates))
    /\ [](\A i \in 1..Len(planes) :
              planes[i].targetGateId = "gate_4" => upgrades["terminal_exp_1"])
    /\ [][gameTime' = gameTime + 1 =>
             \A k \in ClaimedInTick :
                 planes'[k].targetGateId =
                     LowestOf((OpenGates \ HeldBefore) \ ClaimedBefore(k))]_vars

\* with the terminal unlocked an aircraft has gate_4, the other three gates
\* being occupied
LowestFreeGate_Reached ==
    /\ upgrades["terminal_exp_1"]
    /\ \E i \in 1..Len(planes) : planes[i].targetGateId = "gate_4"
    /\ {"gate_1", "gate_2", "gate_3", "gate_4"} \subseteq OccupiedGates
    /\ getFreeGate(gateOccupancy, upgrades) = NoGate

\* the most windows of ivs that hold at one tick, a window holding from its
\* start up to but not at its end
Concurrency(ivs) ==
    LET at(t) == Cardinality({k \in 1..Len(ivs) : ivs[k].start <= t /\ t < ivs[k].end})
        counts == {at(ivs[k].start) : k \in 1..Len(ivs)}
    IN IF counts = {} THEN 0 ELSE CHOOSE c \in counts : \A d \in counts : d <= c

SweepCalled == call.fn = "sweep"

\* C32: a window that ends exactly at the tick where another begins is not
\* counted as overlapping it: with G gates and G committed windows all ending
\* at tick T a candidate starting at T is accepted; and whenever the committed
\* windows are within capacity, the sweep over the windows that intersect the
\* candidate accepts exactly the candidates that a sweep over all committed
\* windows and the candidate accepts.
EdgeIsNoOverlap ==
    SweepCalled =>
        LET committed == call.args.committed
            cand == Interval(call.args.scheduledTime)
            G == call.args.totalGates
        IN /\ (Len(committed) = G /\ \A k \in 1..G : committed[k].end = cand.start)
                  => call.out
           /\ Concurrency(committed) <= G
                  => (call.out <=> Concurrency(committed \o <<cand>>) <= G)

\* three gates, three committed windows that end where the candidate starts,
\* and the candidate is accepted
EdgeIsNoOverlap_Reached ==
    /\ SweepCalled
    /\ call.args.totalGates = 3
    /\ Len(call.args.committed) = 3
    /\ \A k \in 1..3 : call.args.committed[k].end = call.args.scheduledTime
    /\ call.out

\* the number of candidates of the pass with arguments a
TargetOf(a) ==
    LET effectiveDemand ==
            EffectiveDemand(a.baseDemand, getGameDate(a.currentTime).monthIndex)
    IN IF effectiveDemand <= 12 THEN 1 ELSE (effectiveDemand + 11) \div 12

\* no slot a candidate can draw passes the acceptance test
NoValidSlot(a) ==
    \A r \in a.env.rest :
        ~ValidSlot(CommittedIntervals(a.schedule, a.currentTime),
                   a.currentTime + r + 60, TotalGates(a.ups))

\* C33: a scheduler pass always terminates, whatever the slots drawn: it tries
\* max(1, ceil(effectiveDemand / 12)) candidates with at most 15 attempts
\* each; a candidate without a valid slot is dropped; the batch returned has
\* at most the target number of flights, each new, Scheduled and with a time
\* between 60 and 420 ticks after the current tick.
PassTerminates ==
    /\ call.fn = "input" => PassResults(call.args) # {}
    /\ call.fn = "generateSchedule" =>
          LET a == call.args
              batch == call.out.batch
          IN /\ Len(batch) <= TargetOf(a)
             /\ call.out.nextId = a.id + Len(batch)
             /\ \A k \in 1..Len(batch) :
                    /\ batch[k].status = "Scheduled"
                    /\ batch[k].scheduledTime >= a.currentTime + 60
                    /\ batch[k].scheduledTime <= a.currentTime + 420
                    /\ batch[k].id >= a.id /\ batch[k].id < call.out.nextId
                    /\ \A l \in 1..Len(batch) : batch[l].id = batch[k].id => l = k
             /\ NoValidSlot(a) => batch = <<>>

\* a pass with a target of more than two candidates has returned a batch of
\* one flight: the other candidates were dropped
PassTerminates_Reached ==
    /\ call.fn = "generateSchedule"
    /\ TargetOf(call.args) > 2
    /\ Len(call.out.batch) = 1
    /\ call.args.schedule # <<>>

\* the detour of a go-around
DetourLoop == << <<500, 500>>, <<-500, 750>>, <<500, 750>>, <<1500, 750>> >>

\* the rest of the detour after its first n waypoints
DetourFrom(n) == SubSeq(DetourLoop, n + 1, Len(DetourLoop))

\* the flights the tick has rejected
RejectedNow == {i \in Arriving : DivertedNow(schedule'[i].id)}

\* C34: an aircraft in GO_AROUND follows the fixed detour loop of four
\* waypoints, then returns to APPROACH and from there to LANDING; each
\* transition into GO_AROUND lowers reputation by exactly 1, once (a rejected
\* flight of the same tick costs 2 more).
GoAroundDetour ==
    [][gameTime' = gameTime + 1 =>
          /\ \A i \in 1..Len(planes) :
                 /\ (planes[i].status # "GO_AROUND" /\ StatusAfter(planes[i].id) = "GO_AROUND") =>
                        /\ planes[i].status = "APPROACH"
                        /\ PlaneAfter(i).waypoints = DetourLoop
                 /\ planes[i].status = "GO_AROUND" =>
                        /\ \E n \in 0..3 : planes[i].waypoints = DetourFrom(n)
                        /\ \/ /\ StatusAfter(planes[i].id) = "GO_AROUND"
                              /\ \E n \in 0..3 : PlaneAfter(i).waypoints = DetourFrom(n)
                              /\ Len(PlaneAfter(i).waypoints) <= Len(planes[i].waypoints)
                           \/ /\ StatusAfter(planes[i].id) = "APPROACH"
                              /\ planes[i].waypoints = DetourFrom(3)
                              /\ PlaneAfter(i).waypoints = <<>>
                              /\ PlaneAfter(i).pos = At(1500, 750)
                 /\ (planes[i].status = "APPROACH" /\ planes[i].waypoints = <<>>) =>
                        StatusAfter(planes[i].id) = "LANDING"
          /\ economy'.reputation =
                 economy.reputation - Cardinality(WentAround) - 2 * Cardinality(RejectedNow)]_vars

\* an aircraft that went around has flown the detour and is landing from the
\* far end of the runway
GoAroundDetour_Reached ==
    /\ HasLog("go around")
    /\ \E i \in 1..Len(planes) :
          /\ planes[i].status = "LANDING"
          /\ CoordGt(planes[i].pos, "x", 1300)

\* the aircraft that use the runway by status
OnRunway == {i \in 1..Len(planes) : planes[i].status \in {"LANDING", "TAKEOFF"}}

\* C35: runway mutual exclusion: at the end of every tick at most one aircraft
\* has status LANDING or TAKEOFF, however many are in HOLD_SHORT or on APPROACH.
RunwayExclusive == Cardinality(OnRunway) <= 1

\* the flights of the committed schedule that are still to come
PendingNow ==
    {i \in 1..Len(schedule) :
        schedule[i].status = "Scheduled" /\ schedule[i].scheduledTime > gameTime}

\* the gates the airport has
UnlockedGates == IF upgrades["terminal_exp_1"] THEN 4 ELSE 3

\* C36: the number of pending flights (Scheduled, with a scheduled time
\* later than the current tick) of the committed schedule never exceeds the
\* number of unlocked gates.
PendingWithinGates == Cardinality(PendingNow) <= UnlockedGates

\* with the terminal unlocked as many flights are pending as there are gates
PendingWithinGates_Reached ==
    /\ UnlockedGates = 4
    /\ Cardinality(PendingNow) = 4

\* the statuses of an aircraft without a gate
GatelessStatuses ==
    {"APPROACH", "LANDING", "GO_AROUND", "WAITING_FOR_GATE", "TAXI_OUT", "HOLD_SHORT",
     "TAKEOFF"}

\* C37: status and gate reference agree at the end of every tick: a PARKED
\* aircraft has a target gate; an aircraft in APPROACH, LANDING, GO_AROUND,
\* WAITING_FOR_GATE, TAXI_OUT, HOLD_SHORT or TAKEOFF has none; only TAXI_IN may
\* be in either case.
StatusAgreesWithGate ==
    \A i \in 1..Len(planes) :
        /\ planes[i].status = "PARKED" => planes[i].targetGateId # NoGate
        /\ planes[i].status \in GatelessStatuses => planes[i].targetGateId = NoGate
        /\ planes[i].status \in GatelessStatuses \cup {"PARKED", "TAXI_IN"}

\* an aircraft is parked, one taxies in to the gate it has taken, one waits
\* for a gate and one taxies out from the gate it has left
StatusAgreesWithGate_Reached ==
    /\ \E i \in 1..Len(planes) : planes[i].status = "PARKED"
    /\ \E i \in 1..Len(planes) :
          planes[i].status = "TAXI_IN" /\ planes[i].targetGateId # NoGate
    /\ \E i \in 1..Len(planes) : planes[i].status = "WAITING_FOR_GATE"
    /\ \E i \in 1..Len(planes) : planes[i].status = "TAXI_OUT"

\* the aircraft of the state that hold gate g
HoldersOf(g) ==
    {planes[i].id : i \in {j \in 1..Len(planes) :
        planes[j].targetGateId = g /\ planes[j].status \in GateHolders}}

\* the occupant of gate g in the committed map, NULL when the map has no entry
OccupantOf(g) == IF g \in DOMAIN gateOccupancy THEN gateOccupancy[g] ELSE NULL

\* C38: the gate occupancy map committed by a tick is the map derived from
\* the aircraft committed by the same tick: gate g maps to aircraft a exactly
\* when a is active with target gate g and status TAXI_IN, PARKED or
\* WAITING_FOR_GATE, and is empty otherwise; a gate released by PARKED ->
\* TAXI_OUT is empty in the map committed by that tick.
OccupancyMatchesAircraft ==
    \A g \in {"gate_1", "gate_2", "gate_3", "gate_4"} :
        IF HoldersOf(g) = {} THEN OccupantOf(g) = NULL
        ELSE HoldersOf(g) = {OccupantOf(g)}

\* the step adds an entry of a command to the log
CommandLogged ==
    /\ logs' # logs
    /\ logs'[1].message \notin TickMessages

\* C39: while paused, timer firings change nothing: gameTime, schedule,
\* aircraft, economy and gate occupancy stay as they are over any number of
\* paused ticks (the economy changes while paused only by a command, which
\* writes a log entry).  Otherwise gameTime increases by exactly 1 per
\* unpaused tick, and purchaseUpgrade, influenceEconomy, addLog, toggleAi and
\* togglePause never change it.
PausedClockStands ==
    [][/\ paused => /\ UNCHANGED <<gameTime, schedule, planes, gateOccupancy>>
                    /\ economy' # economy => CommandLogged
       /\ gameTime' # gameTime => gameTime' = gameTime + 1
       /\ (schedule' # schedule \/ planes' # planes \/ gateOccupancy' # gateOccupancy)
             => gameTime' = gameTime + 1
       /\ (upgrades' # upgrades \/ aiEnabled' # aiEnabled \/ paused' # paused
              \/ CommandLogged)
             => UNCHANGED <<gameTime, schedule, planes, gateOccupancy>>]_vars

\* the game is paused after two ticks and before the last one, an upgrade
\* has been bought and a campaign run
PausedClockStands_Reached ==
    /\ paused
    /\ gameTime = 2
    /\ \E id \in UpgradeIds : upgrades[id]
    /\ HasLog("ran campaign")


====
